---- MODULE Spec2Model ----
(***************************************************************************)
(* Verification model of the bip-380 descriptor tool: the descriptor       *)
(* checksum engine (subcommands/utils/checksum.rs), the string helpers     *)
(* (traits/string_utils.rs), the key expression validator                  *)
(* (subcommands/key_expression.rs and utils) and the script expression     *)
(* parser (subcommands/script_expression.rs).                              *)
(*                                                                         *)
(* Strings are sequences of characters; a character is a one-character     *)
(* TLA+ string; a character that cannot be written so is named by its code *)
(* point name ("U+00E9", and "U+0060" for the grave accent) together with  *)
(* its UTF-8 length.                                                       *)
(***************************************************************************)
EXTENDS Integers, Sequences, FiniteSets, TLC

VARIABLES
    input,      \* script_expression: the input string
    config,     \* script_expression: the ScriptExpressionConfig
    result,     \* script_expression: the returned Result (or the abort)
    pc,         \* "call" before script_expression runs, "returned" after
    origin,     \* how the input arose: "fresh" or the call it was produced by
    s,          \* checksum engine: the script handed to the engine
    created,    \* checksum engine: what checksum_create returned
    checked,    \* checksum engine: what checksum_check returned
    epc,        \* checksum engine: "start", "created", "checked"
    command,    \* run_cli: the subcommand of the command line
    inputs,     \* run_cli: the inputs of the command line, in order
    position,   \* run_cli: the number of inputs the loop has taken
    stdout,     \* run_cli: the lines printed to standard output
    stderr,     \* run_cli: the lines printed to standard error
    status,     \* run_cli: "running", or how the run ended
    code,       \* run_cli: the exit code of the run once it has ended
    stack       \* script_expression run call by call: the calls not yet returned

\* The variables of a run of the command line, and of a run call by call
cli == <<command, inputs, position, stdout, stderr, status, code, stack>>

vars == <<input, config, result, pc, origin, s, created, checked, epc,
          command, inputs, position, stdout, stderr, status, code, stack>>

-----------------------------------------------------------------------------
(* Characters and strings                                                  *)

\* Characters of more than one UTF-8 byte that the model's inputs use.
\* U+00E9 and U+00A0 are two bytes long in UTF-8.
MultiByteChars == {"U+00E9", "U+00A0"}

\* char::len_utf8 for the characters of the model.
Utf8Len(c) == IF c \in MultiByteChars THEN 2 ELSE 1

SPACE == " "

HexDigits == {"0","1","2","3","4","5","6","7","8","9",
              "a","b","c","d","e","f","A","B","C","D","E","F"}

DecDigits == <<"0","1","2","3","4","5","6","7","8","9">>

\* char::is_ascii_hexdigit
is_ascii_hexdigit(c) == c \in HexDigits

\* str::contains(char) / slice::contains
Contains(str, c) == \E i \in 1..Len(str) : str[i] = c

\* str::starts_with(prefix)
StartsWith(str, prefix) ==
    /\ Len(str) >= Len(prefix)
    /\ \A i \in 1..Len(prefix) : str[i] = prefix[i]

\* Index (from 1) of the first occurrence of c in str, 0 when there is none.
FirstIndex(str, c) ==
    IF Contains(str, c)
    THEN CHOOSE i \in 1..Len(str) :
            str[i] = c /\ \A j \in 1..(i-1) : str[j] # c
    ELSE 0

\* str::find(char) on an all-ASCII table: the byte index, -1 for None.
Find(table, c) == FirstIndex(table, c) - 1

\* str::len: the length in bytes (the characters of the model are one or
\* two bytes long).
ByteLen(str) == Len(str) + Cardinality({i \in 1..Len(str) : Utf8Len(str[i]) = 2})

-----------------------------------------------------------------------------
(* u64 arithmetic.  A u64 is the tuple of its thirteen 5-bit limbs, least   *)
(* significant first (limb 13 holds bits 60..63 only).                     *)

Pow2 == <<1, 2, 4, 8, 16, 32>>

\* 32^0 .. 32^6
Pow32 == <<1, 32, 1024, 32768, 1048576, 33554432, 1073741824>>

Limbs == 1..13

\* The value of a tuple-valued expression, fully evaluated.
Tuple(f) == f \o <<>>

\* a & b and a ^ b for 0 <= a, b < 32, tabulated bit by bit.
AndTable ==
    Tuple([a \in 1..32 |-> Tuple([b \in 1..32 |->
        LET Bit(v, k) == (v \div Pow2[k + 1]) % 2 IN
        Bit(a-1, 0) * Bit(b-1, 0) + 2 * Bit(a-1, 1) * Bit(b-1, 1)
        + 4 * Bit(a-1, 2) * Bit(b-1, 2) + 8 * Bit(a-1, 3) * Bit(b-1, 3)
        + 16 * Bit(a-1, 4) * Bit(b-1, 4)])])

XorTable ==
    Tuple([a \in 1..32 |-> Tuple([b \in 1..32 |->
        LET Bit(v, k) == (v \div Pow2[k + 1]) % 2 IN
        ((Bit(a-1, 0) + Bit(b-1, 0)) % 2) + 2 * ((Bit(a-1, 1) + Bit(b-1, 1)) % 2)
        + 4 * ((Bit(a-1, 2) + Bit(b-1, 2)) % 2) + 8 * ((Bit(a-1, 3) + Bit(b-1, 3)) % 2)
        + 16 * ((Bit(a-1, 4) + Bit(b-1, 4)) % 2)])])

\* The u64 whose limb j is F(j).
ForLimbs(F(_)) ==
    <<F(1), F(2), F(3), F(4), F(5), F(6), F(7), F(8), F(9), F(10), F(11), F(12), F(13)>>

\* Thirteen zero limbs: the u64 0, and the padding beside a shifted value.
ZeroLimbs == <<0, 0, 0, 0, 0, 0, 0, 0, 0, 0, 0, 0, 0>>

\* `n as u64` for 0 <= n < 2^31.
U64(n) ==
    LET F(j) == IF j <= 7 THEN (n \div Pow32[j]) % 32 ELSE 0 IN ForLimbs(F)

HexValue(d) ==
    CHOOSE v \in 0..15 :
        <<"0","1","2","3","4","5","6","7","8","9","a","b","c","d","e","f">>[v+1] = d

\* The u64 written as the hexadecimal literal h (most significant digit first).
U64Hex(h) ==
    LET HexBit(k) ==    \* bit k of the literal
            IF k \div 4 < Len(h) /\ k < 64
            THEN (HexValue(h[Len(h) - (k \div 4)]) \div Pow2[(k % 4) + 1]) % 2
            ELSE 0
        F(j) == HexBit(5*(j-1)) + 2 * HexBit(5*(j-1) + 1) + 4 * HexBit(5*(j-1) + 2)
                + 8 * HexBit(5*(j-1) + 3) + 16 * HexBit(5*(j-1) + 4)
    IN ForLimbs(F)

\* x >> n, for 0 <= n < 64
Shr(x, n) ==
    LET q  == n \div 5
        d  == Pow2[(n % 5) + 1]
        m  == 32 \div d
        xp == x \o ZeroLimbs
        F(j) == (xp[j + q] \div d) + (xp[j + q + 1] % d) * m
    IN ForLimbs(F)

\* x << n, for 0 <= n < 64 (bits shifted past bit 63 are lost)
Shl(x, n) ==
    LET q  == n \div 5
        d  == Pow2[(n % 5) + 1]
        m  == 32 \div d
        xp == ZeroLimbs \o x
        V(j) == (xp[13 + j - q] % m) * d + (xp[13 + j - q - 1] \div m)
        F(j) == IF j = 13 THEN V(j) % 16 ELSE V(j)
    IN ForLimbs(F)

\* x & y
BitAnd(x, y) == LET F(j) == AndTable[x[j] + 1][y[j] + 1] IN ForLimbs(F)

\* x ^ y
BitXor(x, y) == LET F(j) == XorTable[x[j] + 1][y[j] + 1] IN ForLimbs(F)

\* `x as usize` for a u64 below 32.
Low5(x) == x[1]

IsZero(x) == \A j \in Limbs : x[j] = 0

-----------------------------------------------------------------------------
(* subcommands/utils/checksum.rs                                           *)

CHECKSUM_DIVIDER_SYMBOL == "#"

CHECKSUM_LENGTH == 8

INPUT_CHARSET ==
    <<"0","1","2","3","4","5","6","7","8","9","(",")","[","]",",","'","/","*",
      "a","b","c","d","e","f","g","h","@",":","$","%","{","}",
      "I","J","K","L","M","N","O","P","Q","R","S","T","U","V","W","X","Y","Z",
      "&","+","-",".",";","<","=",">","?","!","^","_","|","~",
      "i","j","k","l","m","n","o","p","q","r","s","t","u","v","w","x","y","z",
      "A","B","C","D","E","F","G","H","U+0060","#","\"","\\"," ">>

CHECKSUM_CHARSET ==
    <<"q","p","z","r","y","9","x","8","g","f","2","t","v","d","w","0",
      "s","3","j","n","5","4","k","h","c","e","6","m","u","a","7","l">>

GENERATOR ==
    << U64Hex(<<"f","5","d","e","e","5","1","9","8","9">>),
       U64Hex(<<"a","9","f","d","c","a","3","3","1","2">>),
       U64Hex(<<"1","b","a","b","1","0","e","3","2","d">>),
       U64Hex(<<"3","7","0","6","b","1","6","7","7","a">>),
       U64Hex(<<"6","4","4","d","6","2","6","f","f","d">> ) >>

\* 0x7ffffffff
PolymodMask == U64Hex(<<"7","f","f","f","f","f","f","f","f">>)

RECURSIVE ApplyGenerators(_, _, _)
\* The inner loop of checksum_polymod: for (i, gen) in GENERATOR, from i on,
\* checksum ^= if ((top >> i) & 1) != 0 { gen } else { 0 }.
ApplyGenerators(checksum, top, i) ==
    IF i >= Len(GENERATOR) THEN checksum
    ELSE ApplyGenerators(
            BitXor(checksum,
                   IF ~IsZero(BitAnd(Shr(top, i), U64(1)))
                   THEN GENERATOR[i + 1] ELSE U64(0)),
            top, i + 1)

\* PolymodStep with top taken from the accumulator after the shift instead
\* of before it: the fault CreateIsReference is checked against.
PolymodStep_top_after_shift(checksum, value) ==
    LET c1  == BitXor(Shl(BitAnd(checksum, PolymodMask), 5), U64(value))
        top == Shr(c1, 35)
    IN ApplyGenerators(c1, top, 0)

\* PolymodStep without the mask 0x7ffffffff before the shift: the fault
\* EngineRanges is checked against.
PolymodStep_unmasked(checksum, value) ==
    LET top == Shr(checksum, 35)
        c1  == BitXor(Shl(checksum, 5), U64(value))
    IN ApplyGenerators(c1, top, 0)

\* One iteration of the loop of checksum_polymod, for the symbol value.
PolymodStep(checksum, value) ==
    LET top == Shr(checksum, 35)
        c1  == BitXor(Shl(BitAnd(checksum, PolymodMask), 5), U64(value))
    IN ApplyGenerators(c1, top, 0)

RECURSIVE PolymodLoop(_, _, _, _)
\* The for loop of checksum_polymod over symbols[lo..hi], in order.  (The
\* range is run as its first half followed by its second half, which keeps
\* the evaluation shallow; the iterations and their order are the loop's.)
PolymodLoop(checksum, symbols, lo, hi) ==
    IF lo > hi THEN checksum
    ELSE IF lo = hi THEN PolymodStep(checksum, symbols[lo])
    ELSE LET mid   == (lo + hi) \div 2
             first == PolymodLoop(checksum, symbols, lo, mid)
         IN IF first = first THEN PolymodLoop(first, symbols, mid + 1, hi) ELSE first

\* fn checksum_polymod(symbols: Vec<usize>) -> u64
checksum_polymod(symbols) == PolymodLoop(U64(1), symbols, 1, Len(symbols))

\* One iteration of the for loop of checksum_expand, for the character c;
\* st is [panic, groups, symbols].  The panic is the unwrap_or_else panic for
\* a character that has no index in INPUT_CHARSET.
ExpandStep(st, c) ==
    IF st.panic THEN st
    ELSE LET index == Find(INPUT_CHARSET, c) IN
         IF index < 0
         THEN [panic |-> TRUE, groups |-> st.groups, symbols |-> st.symbols]
         ELSE LET s1 == Append(st.symbols, index % 32)       \* index & 31
                  g1 == Append(st.groups, index \div 32)     \* index >> 5
              IN IF Len(g1) = 3
                 THEN [panic |-> FALSE, groups |-> <<>>,
                       symbols |-> Append(s1, g1[1] * 9 + g1[2] * 3 + g1[3])]
                 ELSE [panic |-> FALSE, groups |-> g1, symbols |-> s1]

RECURSIVE ExpandLoop(_, _, _, _)
\* The for loop of checksum_expand over script[lo..hi], in order (run as its
\* first half followed by its second half).
ExpandLoop(st, script, lo, hi) ==
    IF lo > hi THEN st
    ELSE IF lo = hi THEN ExpandStep(st, script[lo])
    ELSE LET mid   == (lo + hi) \div 2
             first == ExpandLoop(st, script, lo, mid)
         IN IF first.panic THEN first ELSE ExpandLoop(first, script, mid + 1, hi)

\* fn checksum_expand(script: &str) -> Vec<usize>
\* [panic |-> TRUE] when the function aborts, else [symbols |-> the Vec].
checksum_expand(script) ==
    LET r == ExpandLoop([panic |-> FALSE, groups |-> <<>>, symbols |-> <<>>],
                        script, 1, Len(script))
    IN
    IF r.panic THEN [panic |-> TRUE, symbols |-> <<>>]
    ELSE [panic |-> FALSE,
          symbols |->
            CASE Len(r.groups) = 1 -> Append(r.symbols, r.groups[1])
              [] Len(r.groups) = 2 -> Append(r.symbols, r.groups[1] * 3 + r.groups[2])
              [] OTHER -> r.symbols]

\* checksum_length_check that accepts CHECKSUM_LENGTH characters or more: the
\* fault LengthBeforeVerification is checked against.
checksum_length_at_least(checksum) == Len(checksum) >= CHECKSUM_LENGTH

\* pub fn checksum_length_check(checksum: &str) -> bool
checksum_length_check(checksum) == Len(checksum) = CHECKSUM_LENGTH

\* The checksum characters mapped to their CHECKSUM_CHARSET indices.
ChecksumSymbols(checksum) ==
    [i \in 1..Len(checksum) |-> Find(CHECKSUM_CHARSET, checksum[i])]

\* checksum_check that compares the last symbol of the polymod only: the
\* fault OneChecksumPasses is checked against.
checksum_check_last_symbol(script, checksum) ==
    IF ~checksum_length_check(checksum)
    THEN [panic |-> FALSE, val |-> FALSE]
    ELSE IF ~(\A i \in 1..Len(checksum) : Find(CHECKSUM_CHARSET, checksum[i]) >= 0)
    THEN [panic |-> FALSE, val |-> FALSE]
    ELSE IF ~(\A i \in 1..Len(script) : Find(INPUT_CHARSET, script[i]) >= 0)
    THEN [panic |-> FALSE, val |-> FALSE]
    ELSE LET e == checksum_expand(script) IN
         IF e.panic THEN [panic |-> TRUE, val |-> FALSE]
         ELSE [panic |-> FALSE,
               val |-> Low5(checksum_polymod(e.symbols \o ChecksumSymbols(checksum))) = 1]

\* pub fn checksum_check(script: &str, checksum: &str) -> bool
\* [panic, val]; && evaluates left to right and stops at the first false.
checksum_check(script, checksum) ==
    IF ~checksum_length_check(checksum)
    THEN [panic |-> FALSE, val |-> FALSE]
    ELSE IF ~(\A i \in 1..Len(checksum) : Find(CHECKSUM_CHARSET, checksum[i]) >= 0)
    THEN [panic |-> FALSE, val |-> FALSE]
    ELSE IF ~(\A i \in 1..Len(script) : Find(INPUT_CHARSET, script[i]) >= 0)
    THEN [panic |-> FALSE, val |-> FALSE]
    ELSE LET e == checksum_expand(script) IN
         IF e.panic THEN [panic |-> TRUE, val |-> FALSE]
         ELSE [panic |-> FALSE,
               val |-> checksum_polymod(e.symbols \o ChecksumSymbols(checksum)) = U64(1)]

\* checksum_create with the final XOR with 1 left out: the fault RoundTrip
\* is checked against.
checksum_create_no_xor(script) ==
    LET e == checksum_expand(script) IN
    IF e.panic THEN [panic |-> TRUE, val |-> <<>>]
    ELSE LET symbols  == e.symbols \o [i \in 1..CHECKSUM_LENGTH |-> 0]
             checksum == checksum_polymod(symbols)
         IN [panic |-> FALSE,
             val |-> [k \in 1..CHECKSUM_LENGTH |->
                        CHECKSUM_CHARSET[
                            Low5(BitAnd(Shr(checksum, 5 * (8 - k)), U64(31))) + 1]]]

\* pub fn checksum_create(script: &str) -> String
\* [panic, val]
checksum_create(script) ==
    LET e == checksum_expand(script) IN
    IF e.panic THEN [panic |-> TRUE, val |-> <<>>]
    ELSE LET symbols  == e.symbols \o [i \in 1..CHECKSUM_LENGTH |-> 0]
             checksum == BitXor(checksum_polymod(symbols), U64(1))
         IN [panic |-> FALSE,
             val |-> [k \in 1..CHECKSUM_LENGTH |->
                        \* i = k - 1; 7_usize.saturating_sub(i)
                        LET i   == k - 1
                            sh  == IF 7 - i >= 0 THEN 7 - i ELSE 0
                            idx == Low5(BitAnd(Shr(checksum, 5 * sh), U64(31)))
                        IN CHECKSUM_CHARSET[idx + 1]]]

-----------------------------------------------------------------------------
(* structs/parsing_error.rs, utils/error_messages.rs: results              *)

\* Ok(String).  msg is the text around the string, "{}" for the string alone.
Ok(v) == [kind |-> "Ok", msg |-> "{}", label |-> "", val |-> v]

\* Ok(format!(msg)) with the string v in the place of {}.
OkFmt(m, v) == [kind |-> "Ok", msg |-> m, label |-> "", val |-> v]

\* Err(ParsingError::new(msg))
Err(m) == [kind |-> "Err", msg |-> m, label |-> "", val |-> <<>>]

\* Err(ParsingError::new(&format!(msg))): {label} is a fixed word, {} the
\* string v.
ErrFmt(m, l, v) == [kind |-> "Err", msg |-> m, label |-> l, val |-> v]

\* The first of the results rs that is not Ok, Ok(<<>>) when all are
\* (a for loop that returns at the first error, with ?).
FirstFailure(rs) ==
    IF \E k \in 1..Len(rs) : rs[k].kind # "Ok"
    THEN rs[CHOOSE k \in 1..Len(rs) :
                rs[k].kind # "Ok" /\ \A j \in 1..(k-1) : rs[j].kind = "Ok"]
    ELSE Ok(<<>>)

\* r? followed by Ok(v): the error r, else Ok(v).
OkOr(r, v) == IF r.kind # "Ok" THEN r ELSE Ok(v)

\* The call did not return: a panic (abort) at the named place.
Panic(where) == [kind |-> "Panic", msg |-> where, label |-> "", val |-> <<>>]

\* pub fn script_arg_extraction_err(label: &str) -> String
script_arg_extraction_err(l) ==
    ErrFmt("Could not extract arguments from '{label}' expression.", l, <<>>)

\* pub fn script_sh_unsupported_arg_err(arg: &str) -> String
script_sh_unsupported_arg_err(arg) ==
    ErrFmt("'sh' script's argument must be either 'pk', 'pkh' or 'multi' scripts, but '{}' was given.",
           "", arg)

-----------------------------------------------------------------------------
(* traits/string_utils.rs                                                  *)

\* Index of the first character of str that is not a space, 0 if none
\* (Iterator::position / str::find with |c| c != SPACE).
FirstNonSpace(str) ==
    IF \E i \in 1..Len(str) : str[i] # SPACE
    THEN CHOOSE i \in 1..Len(str) :
            str[i] # SPACE /\ \A j \in 1..(i-1) : str[j] = SPACE
    ELSE 0

\* Index of the last character of str that is not a space, 0 if none
\* (Iterator::rposition / str::rfind with |c| c != SPACE).
LastNonSpace(str) ==
    IF \E i \in 1..Len(str) : str[i] # SPACE
    THEN CHOOSE i \in 1..Len(str) :
            str[i] # SPACE /\ \A j \in (i+1)..Len(str) : str[j] = SPACE
    ELSE 0

\* impl Trimifiable for &[char]: fn trimify(self) -> Vec<char>
trimify_chars(chars) ==
    LET start == FirstNonSpace(chars)
        end   == LastNonSpace(chars)
    IN IF start > 0 /\ end > 0 THEN SubSeq(chars, start, end) ELSE <<>>

\* impl Trimifiable for &str: fn trimify(self) -> &str
\* find and rfind give byte offsets of the first bytes of the two characters,
\* and &self[start..=end] ends at byte end + 1, which must be a character
\* boundary: the slice panics when the last non-space character is longer
\* than one byte.  [panic, val]
trimify_str(str) ==
    LET start == FirstNonSpace(str)
        end   == LastNonSpace(str)
    IN IF start > 0 /\ end > 0
       THEN IF Utf8Len(str[end]) > 1
            THEN [panic |-> TRUE, val |-> <<>>]
            ELSE [panic |-> FALSE, val |-> SubSeq(str, start, end)]
       ELSE [panic |-> FALSE, val |-> <<>>]

\* The positions of the character c in str.
Positions(str, c) == {i \in 1..Len(str) : str[i] = c}

\* str::split(c): the pieces between the occurrences of c, in order.
Split(str, c) ==
    LET P == Positions(str, c)
        n == Cardinality(P)
        \* the k-th occurrence of c, 0 for k = 0 and Len(str) + 1 for k = n + 1
        At(k) == IF k = 0 THEN 0
                 ELSE IF k = n + 1 THEN Len(str) + 1
                 ELSE CHOOSE i \in P : Cardinality({j \in P : j <= i}) = k
    IN [k \in 1..(n + 1) |-> SubSeq(str, At(k - 1) + 1, At(k) - 1)]

\* fn extract_args(self, label: &str) -> Result<Vec<String>, ParsingError>
\* [res |-> Ok / Err / Panic, args |-> the Vec of an Ok]
extract_args(chars, l) ==
    LET t == trimify_chars(chars) IN
    IF Len(t) >= 2 /\ t[1] = "(" /\ t[Len(t)] = ")"
    THEN LET raw_inputs == SubSeq(t, 2, Len(t) - 1)
             inner_arg  == trimify_chars(raw_inputs)
         IN IF Contains(inner_arg, "(") /\ Len(inner_arg) > 0
                /\ inner_arg[Len(inner_arg)] = ")"
            THEN [res |-> Ok(<<>>), args |-> <<trimify_chars(inner_arg)>>]
            ELSE LET pieces  == Split(raw_inputs, ",")
                     trimmed == [k \in 1..Len(pieces) |-> trimify_str(pieces[k])]
                 IN IF \E k \in 1..Len(pieces) : trimmed[k].panic
                    THEN [res |-> Panic("trimify"), args |-> <<>>]
                    ELSE [res |-> Ok(<<>>),
                          args |-> [k \in 1..Len(pieces) |-> trimmed[k].val]]
    ELSE [res |-> script_arg_extraction_err(l), args |-> <<>>]

-----------------------------------------------------------------------------
(* subcommands/utils/hexadecimal.rs                                        *)

\* char::to_digit(16): the value of a hexadecimal digit, -1 for None
to_digit_16(c) ==
    IF c \in HexDigits
    THEN (CHOOSE v \in 0..15 :
            c \in {<<"0","1","2","3","4","5","6","7","8","9","a","b","c","d","e","f">>[v + 1],
                   <<"0","1","2","3","4","5","6","7","8","9","A","B","C","D","E","F">>[v + 1]})
    ELSE -1

\* u8::from_str_radix(src, 16) on the two bytes of a group: the byte, -1 for
\* an Err.  A leading + is a sign; a character of two bytes is no digit.
u8_from_str_radix_16(src) ==
    IF Len(src) = 1 THEN -1
    ELSE IF src[1] = "+" THEN to_digit_16(src[2])
    ELSE IF to_digit_16(src[1]) < 0 \/ to_digit_16(src[2]) < 0 THEN -1
    ELSE 16 * to_digit_16(src[1]) + to_digit_16(src[2])

\* The characters of str in its bytes from..to - 1: &s[from..to].  [panic, val];
\* the slice panics past the end and inside a character.
ByteSlice(str, from, to) ==
    LET a == IF to > ByteLen(str) THEN -1
             ELSE (IF \E k \in 0..Len(str) : ByteLen(SubSeq(str, 1, k)) = from
                   THEN CHOOSE k \in 0..Len(str) : ByteLen(SubSeq(str, 1, k)) = from
                   ELSE -1)
        b == IF to > ByteLen(str) THEN -1
             ELSE (IF \E k \in 0..Len(str) : ByteLen(SubSeq(str, 1, k)) = to
                   THEN CHOOSE k \in 0..Len(str) : ByteLen(SubSeq(str, 1, k)) = to
                   ELSE -1)
    IN IF a < 0 \/ b < 0 THEN [panic |-> TRUE, val |-> <<>>]
       ELSE [panic |-> FALSE, val |-> SubSeq(str, a + 1, b)]

\* The map and collect of decode_hex from byte i on: the groups are taken in
\* order, and the first Err ends the collect before a later group is sliced.
RECURSIVE DecodeHexFrom(_, _, _)
DecodeHexFrom(str, i, bytes) ==
    IF i >= ByteLen(str) THEN Ok(bytes)
    ELSE IF ByteSlice(str, i, i + 2).panic THEN Panic("byte index out of range")
    ELSE IF u8_from_str_radix_16(ByteSlice(str, i, i + 2).val) < 0
    THEN Err("invalid digit found in string")
    ELSE DecodeHexFrom(str, i + 2,
                       Append(bytes, u8_from_str_radix_16(ByteSlice(str, i, i + 2).val)))

\* pub fn decode_hex(s: &str) -> Result<Vec<u8>, ParseIntError>
decode_hex(str) == DecodeHexFrom(str, 0, <<>>)

\* RemoveSpaces that removes tabs and newlines too: the fault
\* HexFormat is checked against.
RemoveSpaces_whitespace(str) ==
    LET keep == {i \in 1..Len(str) : str[i] \notin {SPACE, "\t", "\n"}}
        n    == Cardinality(keep)
    IN [k \in 1..n |-> str[CHOOSE i \in keep : Cardinality({j \in keep : j <= i}) = k]]

\* String::retain(|c| c != ' ')
RemoveSpaces(str) ==
    LET keep == {i \in 1..Len(str) : str[i] # SPACE}
        n    == Cardinality(keep)
    IN [k \in 1..n |-> str[CHOOSE i \in keep : Cardinality({j \in keep : j <= i}) = k]]

\* pub fn assert_hexadecimal_format(input, label) -> Result<&str, ParsingError>
assert_hexadecimal_format(inp, l) ==
    LET input_clone == RemoveSpaces(inp) IN
    IF ~(/\ Len(input_clone) # 0
         /\ ByteLen(input_clone) % 2 = 0
         /\ \A i \in 1..Len(input_clone) : is_ascii_hexdigit(input_clone[i]))
    THEN ErrFmt("{label} '{}' is not a valid hexadecimal string!", l, inp)
    ELSE Ok(inp)

-----------------------------------------------------------------------------
(* The external engines: base58 / SHA-256 (bs58, sha2) and the extended    *)
(* key engine (bip32).  Their answers are tabulated for the key strings    *)
(* the repository's tests use; the derivation path grammar is the bip32    *)
(* crate's.                                                                *)

BASE58_ALPHABET ==
    {"1","2","3","4","5","6","7","8","9",
     "A","B","C","D","E","F","G","H","J","K","L","M","N","P","Q","R","S","T",
     "U","V","W","X","Y","Z",
     "a","b","c","d","e","f","g","h","i","j","k","m","n","o","p","q","r","s",
     "t","u","v","w","x","y","z"}

IsBase58(str) == \A i \in 1..Len(str) : str[i] \in BASE58_ALPHABET

\* subcommands/key_expression.rs tests: valid_public_key_02
KEY_HEX_02 ==
    <<"0","2","6","0","b","2","0","0","3","c","3","8","6","5","1","9","f","c","9","e","a","d",
      "f","2","b","5","c","f","1","2","4","d","d","8","e","e","a","4","c","4","e","6","8","d",
      "5","e","1","5","4","0","5","0","a","9","3","4","6","e","a","9","8","c","e","6","0","0">>

\* subcommands/script_expression.rs tests: the first xpub of test_multi_script
\* (depth 0, parent fingerprint 00000000, child number 0, valid checksum)
KEY_XPUB_A ==
    <<"x","p","u","b","6","6","1","M","y","M","w","A","q","R","b","c","F","t","X","g","S","5",
      "s","Y","J","A","B","q","q","G","9","Y","L","m","C","4","Q","1","R","d","a","p","9","g",
      "S","E","8","N","q","t","w","y","b","G","h","e","P","Y","2","g","Z","2","9","E","S","F",
      "j","q","J","o","C","u","1","R","u","p","j","e","8","Y","t","G","q","s","e","f","D","2",
      "6","5","T","M","g","7","u","s","U","D","F","d","p","6","W","1","E","G","M","c","e","t",
      "8">>

\* subcommands/utils/wallet_import_format.rs tests: a valid uncompressed WIF
\* (37 bytes, first byte 0x80, valid checksum)
KEY_WIF_A ==
    <<"5","K","Y","Z","d","U","E","o","3","9","z","3","F","P","r","t","u","X","2","Q","b","b",
      "w","G","n","N","P","5","z","T","d","7","y","y","r","2","S","C","1","j","2","9","9","s",
      "B","C","n","W","j","s","s">>

\* subcommands/key_expression.rs tests: valid_extended_public_key
KEY_XPUB_B ==
    <<"x","p","u","b","6","E","R","A","p","f","Z","w","U","N","r","h","L","C","k","D","t","c",
      "H","T","c","x","d","7","5","R","b","z","S","1","e","d","5","4","G","1","L","k","B","U",
      "H","Q","V","H","Q","K","q","h","M","k","h","g","b","m","J","b","Z","R","k","r","g","Z",
      "w","4","k","o","x","b","5","J","a","H","W","k","Y","4","A","L","H","Y","2","g","r","B",
      "G","R","j","a","D","M","z","Q","L","c","g","J","v","L","J","u","Z","Z","v","R","c","E",
      "L">>

\* subcommands/key_expression.rs tests: invalid_derivation_index_out_of_range (the key before the path)
KEY_XPRV_A ==
    <<"x","p","r","v","9","s","2","1","Z","r","Q","H","1","4","3","K","3","1","x","Y","S","D",
      "Q","p","P","D","x","s","X","R","T","U","c","v","j","2","i","N","H","m","5","N","U","t",
      "r","G","i","G","G","5","e","2","D","t","A","L","G","d","s","o","3","p","G","z","6","s",
      "s","r","d","K","4","P","F","m","M","8","N","S","p","S","B","H","N","q","P","q","m","5",
      "5","Q","n","3","L","q","F","t","T","2","e","m","d","E","X","V","Y","s","C","z","C","2",
      "U">>

\* subcommands/key_expression.rs tests: valid_extended_private_key
KEY_XPRV_B ==
    <<"x","p","r","v","A","1","R","p","R","A","3","3","e","1","J","Q","7","i","f","k","n","a",
      "k","T","F","p","g","N","X","P","m","W","2","Y","v","m","h","q","L","Q","Y","M","m","r",
      "j","4","x","J","X","X","W","Y","p","D","P","S","3","x","z","7","i","A","x","n","8","L",
      "3","9","n","j","G","V","y","u","o","s","e","X","z","U","6","r","c","x","F","L","J","8",
      "H","F","s","T","j","S","y","Q","b","L","Y","n","M","p","C","q","E","2","V","b","F","W",
      "c">>

\* subcommands/key_expression.rs tests: xpub_zero_depth_with_non_zero_parent_fingerprint_invalid
KEY_XPUB_ZERO_DEPTH_PARENT ==
    <<"x","p","u","b","6","6","1","n","o","6","R","G","E","X","3","u","J","k","Y","4","b","N",
      "n","P","c","w","4","U","R","c","Q","T","r","S","i","b","U","Z","4","N","q","J","E","w",
      "5","e","B","k","v","7","o","v","T","w","g","i","T","9","1","X","X","2","7","V","b","E",
      "X","G","E","N","h","Y","R","C","f","7","h","y","E","b","W","r","R","3","F","e","w","A",
      "T","d","C","E","e","b","j","6","z","n","w","M","f","Q","k","h","R","Y","H","R","L","p",
      "J">>

\* subcommands/key_expression.rs tests: xpub_zero_depth_with_non_zero_index_invalid
KEY_XPUB_ZERO_DEPTH_INDEX ==
    <<"x","p","u","b","6","6","1","M","y","M","w","A","u","D","c","m","6","C","R","Q","5","N",
      "4","q","i","H","K","r","J","3","9","X","e","1","R","1","N","y","f","o","u","M","K","T",
      "T","W","c","g","u","w","V","c","f","r","Z","J","a","N","v","h","p","e","b","z","G","e",
      "r","h","7","g","u","c","B","v","z","E","Q","W","R","u","g","Z","D","u","D","X","j","N",
      "D","R","m","X","z","S","Z","e","4","c","7","m","n","T","K","9","7","p","T","v","G","S",
      "8">>

\* subcommands/key_expression.rs tests: xprv_zero_depth_non_zero_parent_invalid
KEY_XPRV_ZERO_DEPTH_PARENT ==
    <<"x","p","r","v","9","s","2","S","P","a","t","N","Q","9","V","c","6","G","T","b","V","M",
      "F","P","F","o","7","j","s","a","Z","y","S","y","z","k","7","L","8","n","2","u","q","K",
      "X","J","e","n","3","K","U","m","v","Q","N","T","u","L","h","3","f","h","Z","M","B","o",
      "G","3","G","4","Z","W","1","N","2","k","Z","u","H","E","P","Y","5","3","q","m","b","Z",
      "z","C","H","s","h","o","Q","n","N","f","4","G","v","E","L","Z","f","q","T","U","r","c",
      "v">>

\* subcommands/key_expression.rs tests: xprv_zero_depth_non_zero_index_invalid
KEY_XPRV_ZERO_DEPTH_INDEX ==
    <<"x","p","r","v","9","s","2","1","Z","r","Q","H","4","r","4","T","s","i","L","v","y","L",
      "X","q","M","9","P","7","k","1","K","3","E","Y","h","A","1","k","k","D","6","x","u","q",
      "u","B","5","i","3","9","A","U","8","K","F","4","2","a","c","D","y","L","3","q","s","D",
      "b","U","9","N","m","Z","n","6","M","s","G","S","U","Y","Z","E","s","u","o","e","P","m",
      "j","z","s","B","3","e","F","K","S","U","E","h","3","G","u","1","N","3","c","q","V","U",
      "N">>

\* What the extended key engine decodes from the keys it accepts: the
\* attributes serialized in the keys of the repository's tests (index is
\* ChildNumber::index(), the child number without its hardened bit).
ExtendedKeyTable ==
    { [key |-> KEY_XPUB_A, prefix |-> "xpub", depth |-> 0,
       parent_fingerprint |-> <<0, 0, 0, 0>>, index |-> 0],
      [key |-> KEY_XPUB_B, prefix |-> "xpub", depth |-> 4,
       parent_fingerprint |-> <<120, 65, 46, 58>>, index |-> 2147483646],
      [key |-> KEY_XPRV_A, prefix |-> "xprv", depth |-> 0,
       parent_fingerprint |-> <<0, 0, 0, 0>>, index |-> 0],
      [key |-> KEY_XPRV_B, prefix |-> "xprv", depth |-> 4,
       parent_fingerprint |-> <<120, 65, 46, 58>>, index |-> 2147483646],
      [key |-> KEY_XPUB_ZERO_DEPTH_PARENT, prefix |-> "xpub", depth |-> 0,
       parent_fingerprint |-> <<1, 1, 1, 1>>, index |-> 0],
      [key |-> KEY_XPUB_ZERO_DEPTH_INDEX, prefix |-> "xpub", depth |-> 0,
       parent_fingerprint |-> <<0, 0, 0, 0>>, index |-> 16843009],
      [key |-> KEY_XPRV_ZERO_DEPTH_PARENT, prefix |-> "xprv", depth |-> 0,
       parent_fingerprint |-> <<1, 1, 1, 1>>, index |-> 0],
      [key |-> KEY_XPRV_ZERO_DEPTH_INDEX, prefix |-> "xprv", depth |-> 0,
       parent_fingerprint |-> <<0, 0, 0, 0>>, index |-> 16843009] }

\* subcommands/utils/wallet_import_format.rs tests: a valid uncompressed WIF
KEY_WIF_B ==
    <<"5","H","u","e","C","G","U","8","r","M","j","x","E","X","x","i","P","u","D","5","B","D",
      "k","u","4","M","k","F","q","e","Z","y","d","4","d","Z","1","j","v","h","T","V","q","v",
      "b","T","L","v","y","T","J">>

\* subcommands/utils/wallet_import_format.rs tests: a valid compressed WIF (38 bytes)
KEY_WIF_COMPRESSED ==
    <<"L","4","r","K","1","y","D","t","C","W","e","k","v","X","u","E","6","o","X","D","9","j",
      "C","Y","f","F","N","V","2","c","W","R","p","V","u","P","L","B","c","C","U","2","z","8",
      "T","r","i","s","o","y","Y","1">>

\* subcommands/utils/wallet_import_format.rs tests: test_validate_wif_private_key_invalid_checksum
KEY_WIF_COMPRESSED_BAD_CHECKSUM ==
    <<"L","4","r","K","1","y","D","t","C","W","e","k","v","X","u","E","6","o","X","D","9","j",
      "C","Y","f","F","N","V","2","c","W","R","p","V","u","P","L","B","c","C","U","2","z","8",
      "T","r","i","s","o","y","X","w">>

\* subcommands/key_expression.rs tests: wif_invalid_checksum
KEY_WIF_BAD_CHECKSUM ==
    <<"L","2","y","R","7","W","s","F","o","Y","m","e","Z","q","c","h","8","S","c","Z","6","J",
      "2","Y","q","r","J","7","N","9","J","G","V","d","5","6","j","z","1","7","W","A","W","W",
      "m","3","c","o","A","J","z","a">>

\* subcommands/key_expression.rs tests: wif_invalid_prefix (first byte 0x21)
KEY_WIF_BAD_VERSION ==
    <<"5","w","G","u","Z","u","P","G","h","W","j","R","8","d","1","J","3","z","f","V","F","S",
      "6","c","1","t","M","1","g","K","Z","X","2","V","Z","e","u","4","f","z","2","4","8","Q",
      "e","p","E","p","p","u","p","V">>

\* KEY_WIF_A with one byte of its 4-byte checksum tail altered: the
\* base58 strings of its 37 bytes with bit 0 of byte 34, 35, 36, 37 flipped.
WifAlteredTails ==
    { <<"5","K","Y","Z","d","U","E","o","3","9","z","3","F","P","r","t","u","X","2","Q","b","b",
        "w","G","n","N","P","5","z","T","d","7","y","y","r","2","S","C","1","j","2","9","9","s",
        "B","C","o","z","j","A","D">>,
      <<"5","K","Y","Z","d","U","E","o","3","9","z","3","F","P","r","t","u","X","2","Q","b","b",
        "w","G","n","N","P","5","z","T","d","7","y","y","r","2","S","C","1","j","2","9","9","s",
        "B","C","n","W","Q","P","w">>,
      <<"5","K","Y","Z","d","U","E","o","3","9","z","3","F","P","r","t","u","X","2","Q","b","b",
        "w","G","n","N","P","5","z","T","d","7","y","y","r","2","S","C","1","j","2","9","9","s",
        "B","C","n","W","j","o","T">>,
      <<"5","K","Y","Z","d","U","E","o","3","9","z","3","F","P","r","t","u","X","2","Q","b","b",
        "w","G","n","N","P","5","z","T","d","7","y","y","r","2","S","C","1","j","2","9","9","s",
        "B","C","n","W","j","s","t">> }

\* KEY_WIF_BAD_VERSION with the last byte of its checksum altered
KEY_WIF_BAD_VERSION_BAD_CHECKSUM ==
    <<"5","w","G","u","Z","u","P","G","h","W","j","R","8","d","1","J","3","z","f","V","F","S",
      "6","c","1","t","M","1","g","K","Z","X","2","V","Z","e","u","4","f","z","2","4","8","Q",
      "e","p","E","p","p","u","p","W">>

\* The first 32 bytes of KEY_WIF_A with their own checksum: 36 bytes
KEY_WIF_SHORT ==
    <<"y","m","J","p","E","R","R","U","g","C","7","Q","C","X","L","T","r","P","y","Y","r","b",
      "x","E","T","9","B","C","C","v","V","m","d","S","c","D","W","E","J","g","E","B","A","d",
      "1","6","f","H","W">>

\* The 34 bytes of KEY_WIF_COMPRESSED and one more, with their own checksum: 39 bytes
KEY_WIF_LONG ==
    <<"2","T","9","z","e","X","H","9","r","y","o","s","e","s","H","P","W","p","c","L","L","d",
      "X","F","x","j","p","R","p","i","7","i","t","Y","e","a","D","Z","f","p","M","c","K","m",
      "9","w","Y","Q","P","J","6","L","X","r">>

\* Sha256::digest(Sha256::digest(bytes)): the first 4 bytes of the double
\* SHA-256 of the byte strings the model hashes.
Sha256dTable ==
    { \* the bytes of KEY_WIF_A before its last 4
      [bytes |-> <<128,227,176,196,66,152,252,28,20,154,251,244,200,153,111,185,
                   36,39,174,65,228,100,155,147,76,164,149,153,27,120,82,184,
                   85>>,
       digest |-> <<92,91,187,38>>],
      \* the bytes of KEY_WIF_B before its last 4
      [bytes |-> <<128,12,40,252,163,134,199,162,39,96,11,47,229,11,124,174,
                   17,236,134,211,191,31,190,71,27,232,152,39,225,157,114,170,
                   29>>,
       digest |-> <<80,122,91,141>>],
      \* the bytes of KEY_WIF_COMPRESSED before its last 4
      [bytes |-> <<128,227,176,196,66,152,252,28,20,154,251,244,200,153,111,185,
                   36,39,174,65,228,100,155,147,76,164,149,153,27,120,82,184,
                   85,1>>,
       digest |-> <<31,164,222,22>>],
      \* the bytes of KEY_WIF_BAD_CHECKSUM before its last 4
      [bytes |-> <<128,171,171,187,171,171,171,171,171,171,171,171,171,171,171,170,
                   186,186,186,186,186,186,186,186,186,186,186,186,186,186,186,186,
                   186,1>>,
       digest |-> <<22,63,187,22>>] }

InExtendedKeyTable(key) == \E e \in ExtendedKeyTable : e.key = key
ExtendedKeyEntry(key) == CHOOSE e \in ExtendedKeyTable : e.key = key

\* The first 4 bytes of the double SHA-256 of bytes; no 4 bytes for a byte
\* string outside Sha256dTable, whose tail then never equals its digest.
Sha256d(bytes) ==
    IF \E e \in Sha256dTable : e.bytes = bytes
    THEN (CHOOSE e \in Sha256dTable : e.bytes = bytes).digest
    ELSE <<>>

\* The base58 alphabet in the order of its digits
BASE58_DIGITS ==
    <<"1","2","3","4","5","6","7","8","9",
      "A","B","C","D","E","F","G","H","J","K","L","M","N","P","Q","R","S","T",
      "U","V","W","X","Y","Z",
      "a","b","c","d","e","f","g","h","i","j","k","m","n","o","p","q","r","s",
      "t","u","v","w","x","y","z">>

\* number * 58 + carry, the number being the bytes from index i on, least
\* significant first.
RECURSIVE Base58MulAdd(_, _, _)
Base58MulAdd(number, i, carry) ==
    IF i > Len(number) THEN (IF carry = 0 THEN <<>> ELSE <<carry>>)
    ELSE LET t == number[i] * 58 + carry
         IN <<t % 256>> \o Base58MulAdd(number, i + 1, t \div 256)

\* The number the base58 digits from index i on add to acc (the test on
\* Len(acc) has acc computed before the next digit is taken).
RECURSIVE Base58Number(_, _, _)
Base58Number(str, i, acc) ==
    IF i > Len(str) \/ Len(acc) < 0 THEN acc
    ELSE Base58Number(str, i + 1, Base58MulAdd(acc, 1, Find(BASE58_DIGITS, str[i])))

Reverse(seq) == [k \in 1..Len(seq) |-> seq[Len(seq) + 1 - k]]

\* bs58::decode(key).into_vec(): [ok, bytes]; a leading 1 is a zero byte,
\* the other digits are the bytes of their number, most significant first.
bs58_decode(key) ==
    IF ~IsBase58(key) THEN [ok |-> FALSE, bytes |-> <<>>]
    ELSE LET ones == IF \E i \in 1..Len(key) : key[i] # "1"
                     THEN FirstIndex([k \in 1..Len(key) |-> key[k] # "1"], TRUE) - 1
                     ELSE Len(key)
         IN [ok |-> TRUE,
             bytes |-> [k \in 1..ones |-> 0]
                       \o Reverse(Base58Number(key, ones + 1, <<>>))]

\* The decimal value of the digit string, -1 when it has a character that is
\* no digit or when the value is above 2^31 - 1.
RECURSIVE ParseDigitsFrom(_, _, _)
ParseDigitsFrom(str, i, acc) ==
    IF i > Len(str) THEN acc
    ELSE LET d == Find(DecDigits, str[i]) IN
         IF d < 0 THEN -1
         ELSE IF acc > (2147483647 - d) \div 10 THEN -1
         ELSE ParseDigitsFrom(str, i + 1, acc * 10 + d)

\* bip32 ChildNumber::from_str: decimal digits with an optional hardened
\* marker (h, H or '), the index below 2^31.
ChildNumber_from_str(segment) ==
    LET n      == Len(segment)
        marked == n > 0 /\ segment[n] \in {"h", "H", "'"}
        digits == IF marked THEN SubSeq(segment, 1, n - 1) ELSE segment
    IN /\ Len(digits) > 0
       /\ ParseDigitsFrom(digits, 1, 0) >= 0

\* bip32 DerivationPath::from_str: "m" followed by /-separated child numbers.
DerivationPath_from_str(path) ==
    LET parts == Split(path, "/") IN
    /\ parts[1] = <<"m">>
    /\ \A k \in 2..Len(parts) : ChildNumber_from_str(parts[k])

-----------------------------------------------------------------------------
(* subcommands/utils/key_origin.rs                                         *)

\* The number of characters in the first n bytes of str, -1 when byte n is
\* inside a character (str::split_at(n) panics there).
CharsInBytes(str, n) ==
    IF \E k \in 0..Len(str) : ByteLen(SubSeq(str, 1, k)) = n
    THEN CHOOSE k \in 0..Len(str) : ByteLen(SubSeq(str, 1, k)) = n
    ELSE -1

\* validate_key_origin once content.split_at(8) returned: at is the number
\* of characters of the fingerprint.
KeyOriginSplit(content, at) ==
    IF at < 0 THEN Panic("split_at")
    ELSE IF ~(\A i \in 1..at : is_ascii_hexdigit(content[i]))
    THEN Err("Fingerprint is not valid hex")
    ELSE IF ~DerivationPath_from_str(<<"m">> \o SubSeq(content, at + 1, Len(content)))
    THEN Err("Invalid derivation path: {e}")
    ELSE Ok(<<>>)

\* validate_key_origin on the text between the brackets.
KeyOriginContent(content) ==
    IF ByteLen(content) < 8
    THEN Err("Fingerprint must be 8 characters long")
    ELSE KeyOriginSplit(content, CharsInBytes(content, 8))

\* pub fn validate_key_origin(key_origin: &str) -> Result<(), ParsingError>
validate_key_origin(key_origin) ==
    IF ~(Len(key_origin) >= 2 /\ key_origin[1] = "["
         /\ key_origin[Len(key_origin)] = "]")
    THEN Err("Key origin must start with [ and end with ]")
    ELSE KeyOriginContent(SubSeq(key_origin, 2, Len(key_origin) - 1))

-----------------------------------------------------------------------------
(* subcommands/utils/hex_encoded_public_key.rs                             *)

HEX_ENCODED_PUBLIC_KEY_PREFIXES == <<<<"0","2">>, <<"0","3">>, <<"0","4">>>>

\* pub fn has_hex_encoded_public_key_prefix(input: &str) -> bool
has_hex_encoded_public_key_prefix(inp) ==
    \E k \in 1..Len(HEX_ENCODED_PUBLIC_KEY_PREFIXES) :
        StartsWith(inp, HEX_ENCODED_PUBLIC_KEY_PREFIXES[k])

\* parse_hex_encoded_public_key that wants 66 characters whatever the
\* prefix: the fault HexKeyLengths is checked against.
parse_hex_encoded_public_key_66(inp) ==
    IF ~has_hex_encoded_public_key_prefix(inp)
    THEN Err("Hex encoded public key must start with 02, 03 or 04")
    ELSE IF ~(\A i \in 1..Len(inp) : is_ascii_hexdigit(inp[i]))
    THEN Err("Hex encoded public key contains non-hexadecimal characters")
    ELSE IF ByteLen(inp) # 66
    THEN Err("Hex encoded public key with prefix '02' or '03' must be 66 characters long")
    ELSE Ok(<<>>)

\* pub fn parse_hex_encoded_public_key(input: &str) -> Result<(), ParsingError>
parse_hex_encoded_public_key(inp) ==
    IF ~has_hex_encoded_public_key_prefix(inp)
    THEN Err("Hex encoded public key must start with 02, 03 or 04")
    ELSE IF ~(\A i \in 1..Len(inp) : is_ascii_hexdigit(inp[i]))
    THEN Err("Hex encoded public key contains non-hexadecimal characters")
    ELSE IF StartsWith(inp, <<"0","4">>)
    THEN IF ByteLen(inp) # 130
         THEN Err("Hex encoded public key with prefix '04' must be 130 characters long")
         ELSE Ok(<<>>)
    ELSE IF ByteLen(inp) # 66
    THEN Err("Hex encoded public key with prefix '02' or '03' must be 66 characters long")
    ELSE Ok(<<>>)

-----------------------------------------------------------------------------
(* subcommands/utils/extended_key.rs                                       *)

\* pub fn has_extended_key_prefix(key: &str) -> bool
has_extended_key_prefix(key) ==
    StartsWith(key, <<"x","p","u","b">>) \/ StartsWith(key, <<"x","p","r","v">>)

\* validate_extended_key_attrs without its second arm: the fault
\* ZeroDepthAfterPath is checked against.
validate_extended_key_attrs_parent_only(attrs) ==
    IF attrs.depth = 0 /\ (\E k \in 1..4 : attrs.parent_fingerprint[k] # 0)
    THEN Err("Invalid key: the key cannot have zero depth with non-zero parent fingerprint")
    ELSE Ok(<<>>)

\* pub fn validate_extended_key_attrs(attrs) -> Result<(), ParsingError>
validate_extended_key_attrs(attrs) ==
    IF attrs.depth = 0 /\ (\E k \in 1..4 : attrs.parent_fingerprint[k] # 0)
    THEN Err("Invalid key: the key cannot have zero depth with non-zero parent fingerprint")
    ELSE IF attrs.depth = 0 /\ attrs.index > 0
    THEN Err("Invalid key: the key cannot have zero depth with non-zero index")
    ELSE Ok(<<>>)

\* XPub::from_str / XPrv::from_str of the extended key engine: whether the
\* string is a key of the wanted kind that the engine accepts.
ExtendedKeyParses(key, prefix) ==
    InExtendedKeyTable(key) /\ ExtendedKeyEntry(key).prefix = prefix

\* The segments with every wildcard taken out, wherever it stands: a fault
\* WildcardOnlyLast is checked against.
DerivationSegments_any_wildcard(all) ==
    SelectSeq(all, LAMBDA seg : seg # <<"*">> /\ seg # <<"*","h">>)

\* validate_extended_key: the segments of the path that must be child
\* numbers, all of them but a last one that is "*" or "*h".
DerivationSegments(all) ==
    LET last == all[Len(all)] IN
    IF last = <<"*">> \/ last = <<"*","h">>
    THEN SubSeq(all, 1, Len(all) - 1) ELSE all

\* pub fn validate_extended_key(key: &str) -> Result<String, ParsingError>
validate_extended_key(key0) ==
    IF ~has_extended_key_prefix(key0)
    THEN Err("Key must start with xpub or xprv")
    ELSE LET slash == FirstIndex(key0, "/")
             cut   == IF slash > 0 THEN slash - 1 ELSE Len(key0)
             key   == SubSeq(key0, 1, cut)
             path  == SubSeq(key0, cut + 1, Len(key0))
         IN IF StartsWith(key, <<"x","p","u","b">>) /\ ~ExtendedKeyParses(key, "xpub")
            THEN Err("Invalid xpub key: {e}")
            ELSE IF ~StartsWith(key, <<"x","p","u","b">>) /\ ~ExtendedKeyParses(key, "xprv")
            THEN Err("Invalid xprv key: {e}")
            ELSE IF Len(path) = 0 THEN Ok(key)
            ELSE LET derivation_segments ==
                        DerivationSegments(Split(SubSeq(path, 2, Len(path)), "/"))
                 IN IF \E k \in 1..Len(derivation_segments) :
                            ~ChildNumber_from_str(derivation_segments[k])
                    THEN ErrFmt("Invalid derivation segment '{}': {e}", "",
                                derivation_segments[
                                    CHOOSE k \in 1..Len(derivation_segments) :
                                        /\ ~ChildNumber_from_str(derivation_segments[k])
                                        /\ \A j \in 1..(k-1) :
                                              ChildNumber_from_str(derivation_segments[j])])
                    ELSE Ok(key)

-----------------------------------------------------------------------------
(* subcommands/utils/wallet_import_format.rs                               *)

\* WifBytes that compares the checksum before it looks at the first byte:
\* the fault WifOrder is checked against.
WifBytes_checksum_first(bytes) ==
    IF Len(bytes) \notin {37, 38} THEN Err("Invalid WIF format")
    ELSE IF SubSeq(bytes, Len(bytes) - 3, Len(bytes))
            # Sha256d(SubSeq(bytes, 1, Len(bytes) - 4))
    THEN Err("WIF checksum does not match")
    ELSE IF bytes[1] # 128 THEN Err("WIF must start with 0x80")
    ELSE Ok(<<>>)

\* validate_wif_private_key once bs58::decode returned the bytes.
WifBytes(bytes) ==
    IF Len(bytes) \notin {37, 38} THEN Err("Invalid WIF format")
    ELSE IF bytes[1] # 128 THEN Err("WIF must start with 0x80")
    ELSE IF SubSeq(bytes, Len(bytes) - 3, Len(bytes))
            # Sha256d(SubSeq(bytes, 1, Len(bytes) - 4))
    THEN Err("WIF checksum does not match")
    ELSE Ok(<<>>)

\* validate_wif_private_key once bs58::decode returned d.
WifDecoded(d) ==
    IF ~d.ok THEN Err("Could not convert WIF from base58")
    ELSE WifBytes(d.bytes)

\* pub fn validate_wif_private_key(key: &str) -> Result<(), ParsingError>
validate_wif_private_key(key) == WifDecoded(bs58_decode(key))

-----------------------------------------------------------------------------
(* subcommands/key_expression.rs                                           *)

\* ALLOWED_CHAR_SET with the double quote and the backslash in it: the fault
\* KeyAlphabetWithinEngine is checked against.
ALLOWED_CHAR_SET_with_quotes == INPUT_CHARSET

\* const ALLOWED_CHAR_SET: &str
ALLOWED_CHAR_SET ==
    <<"0","1","2","3","4","5","6","7","8","9","(",")","[","]",",","'","/","*",
      "a","b","c","d","e","f","g","h","@",":","$","%","{","}","I","J","K","L",
      "M","N","O","P","Q","R","S","T","U","V","W","X","Y","Z","&","+","-",".",
      ";","<","=",">","?","!","^","_","|","~","i","j","k","l","m","n","o","p",
      "q","r","s","t","u","v","w","x","y","z","A","B","C","D","E","F","G","H",
      "U+0060","#"," ">>

\* fn split_key_expression(input) -> Result<(Option<&str>, &str), ParsingError>
\* [res, some, key_origin, key]
split_key_expression(inp) ==
    IF StartsWith(inp, <<"[">>)
    THEN LET end_index == Find(inp, "]") IN
         IF end_index < 0
         THEN [res |-> Err("Missing closing bracket"), some |-> FALSE,
               key_origin |-> <<>>, key |-> <<>>]
         ELSE [res |-> Ok(<<>>), some |-> TRUE,
               key_origin |-> SubSeq(inp, 1, end_index + 1),
               key |-> SubSeq(inp, end_index + 2, Len(inp))]
    ELSE [res |-> Ok(<<>>), some |-> FALSE, key_origin |-> <<>>, key |-> inp]

\* validate_key on an extended key once validate_extended_key returned r;
\* ExtendedKey::from_str(&key_str)? succeeds on what the engine parsed.
ExtendedKeyAttrs(r) ==
    IF r.kind # "Ok" THEN r
    ELSE validate_extended_key_attrs(ExtendedKeyEntry(r.val))

\* fn validate_key(key: &str) -> Result<(), ParsingError>
validate_key(key) ==
    IF Len(key) = 0 THEN Err("Key is empty")
    ELSE IF Contains(key, "[") \/ Contains(key, "]")
    THEN Err("Key can not include key origin")
    ELSE IF has_hex_encoded_public_key_prefix(key)
    THEN parse_hex_encoded_public_key(key)
    ELSE IF has_extended_key_prefix(key)
    THEN ExtendedKeyAttrs(validate_extended_key(key))
    ELSE validate_wif_private_key(key)

\* KeyExpressionSplit that returns the key without its origin: the fault
\* ReturnsInput is checked against.
KeyExpressionSplit_key_returned(inp, sp) ==
    IF sp.res.kind # "Ok" THEN sp.res
    ELSE OkOr(FirstFailure(<<IF sp.some THEN validate_key_origin(sp.key_origin)
                             ELSE Ok(<<>>),
                             validate_key(sp.key)>>),
              sp.key)

\* KeyExpressionSplit that validates the key before the key origin: the
\* fault KeyExpressionOrder is checked against.
KeyExpressionSplit_key_first(inp, sp) ==
    IF sp.res.kind # "Ok" THEN sp.res
    ELSE OkOr(FirstFailure(<<validate_key(sp.key),
                             IF sp.some THEN validate_key_origin(sp.key_origin)
                             ELSE Ok(<<>>)>>),
              inp)

\* pub fn validate_key_expression(input: String) -> Result<String, ParsingError>
\* The rest of validate_key_expression once split_key_expression returned
\* sp: each ? returns the first error.
KeyExpressionSplit(inp, sp) ==
    IF sp.res.kind # "Ok" THEN sp.res
    ELSE OkOr(FirstFailure(<<IF sp.some THEN validate_key_origin(sp.key_origin)
                             ELSE Ok(<<>>),
                             validate_key(sp.key)>>),
              inp)

validate_key_expression(inp) ==
    IF Len(inp) = 0 THEN Err("Input is empty")
    ELSE IF \E i \in 1..Len(inp) : ~Contains(ALLOWED_CHAR_SET, inp[i])
    THEN Err("Input contains invalid characters")
    ELSE KeyExpressionSplit(inp, split_key_expression(inp))

-----------------------------------------------------------------------------
(* subcommands/script_expression.rs                                        *)

RECURSIVE ParseNegDigitsFrom(_, _, _)
\* The digits of a negative number, accumulated downwards as i32::from_str
\* does; 1 when a character is no digit, 2 when the value is below -2^31.
ParseNegDigitsFrom(str, i, acc) ==
    IF i > Len(str) THEN acc
    ELSE LET d == Find(DecDigits, str[i]) IN
         IF d < 0 THEN 1
         ELSE IF acc < ((-2147483647 - 1) + d + 9) \div 10 THEN 2
         ELSE ParseNegDigitsFrom(str, i + 1, acc * 10 - d)

\* str::parse::<i32>(): [res |-> Ok / Err(ParseIntError text), val |-> the i32]
parse_i32(str) ==
    IF Len(str) = 0
    THEN [res |-> Err("cannot parse integer from empty string"), val |-> 0]
    ELSE IF str = <<"+">> \/ str = <<"-">>
    THEN [res |-> Err("invalid digit found in string"), val |-> 0]
    ELSE IF str[1] = "-"
    THEN LET v == ParseNegDigitsFrom(str, 2, 0) IN
         IF v = 1 THEN [res |-> Err("invalid digit found in string"), val |-> 0]
         ELSE IF v = 2
         THEN [res |-> Err("number too small to fit in target type"), val |-> 0]
         ELSE [res |-> Ok(<<>>), val |-> v]
    ELSE LET digits == IF str[1] = "+" THEN SubSeq(str, 2, Len(str)) ELSE str
             bad    == \E k \in 1..Len(digits) : Find(DecDigits, digits[k]) < 0
             v      == ParseDigitsFrom(digits, 1, 0)
         IN IF bad THEN [res |-> Err("invalid digit found in string"), val |-> 0]
            ELSE IF v < 0
            THEN [res |-> Err("number too large to fit in target type"), val |-> 0]
            ELSE [res |-> Ok(<<>>), val |-> v]

\* divide_script_and_checksum that splits at the last divider: the fault
\* DividesAtFirstDivider is checked against.
divide_at_last_divider(inp) ==
    LET at == IF Contains(inp, CHECKSUM_DIVIDER_SYMBOL)
              THEN CHOOSE i \in 1..Len(inp) :
                      /\ inp[i] = CHECKSUM_DIVIDER_SYMBOL
                      /\ \A j \in (i + 1)..Len(inp) : inp[j] # CHECKSUM_DIVIDER_SYMBOL
              ELSE 0
    IN
    IF at = 0 THEN [script |-> inp, some |-> FALSE, checksum |-> <<>>]
    ELSE [script |-> SubSeq(inp, 1, at - 1), some |-> TRUE,
          checksum |-> SubSeq(inp, at + 1, Len(inp))]

\* divide_script_and_checksum that leaves the divider at the head of the
\* checksum: the fault ComputeThenVerify is checked against.
divide_keeping_divider(inp) ==
    LET at == FirstIndex(inp, CHECKSUM_DIVIDER_SYMBOL) IN
    IF at = 0 THEN [script |-> inp, some |-> FALSE, checksum |-> <<>>]
    ELSE [script |-> SubSeq(inp, 1, at - 1), some |-> TRUE,
          checksum |-> SubSeq(inp, at, Len(inp))]

\* fn divide_script_and_checksum(input: &str) -> (String, Option<String>)
\* input.splitn(2, "#"): [script, some, checksum]
divide_script_and_checksum(inp) ==
    LET at == FirstIndex(inp, CHECKSUM_DIVIDER_SYMBOL) IN
    IF at = 0 THEN [script |-> inp, some |-> FALSE, checksum |-> <<>>]
    ELSE [script |-> SubSeq(inp, 1, at - 1), some |-> TRUE,
          checksum |-> SubSeq(inp, at + 1, Len(inp))]

\* The calls a script_expression call makes to the checksum engine: epc is
\* "idle" when it makes none, "created" / "checked" after checksum_create /
\* checksum_check returned, "aborted" when the engine panicked; s is the
\* script handed to the engine.
NoEngineCall == [epc |-> "idle", s |-> <<>>, created |-> <<>>, checked |-> FALSE]

EngineCreated(script, c) ==
    [epc |-> IF c.panic THEN "aborted" ELSE "created", s |-> script,
     created |-> c.val, checked |-> FALSE]

EngineChecked(script, c) ==
    [epc |-> IF c.panic THEN "aborted" ELSE "checked", s |-> script,
     created |-> <<>>, checked |-> c.val]

\* The return of script_operation when the configuration asks to compute:
\* c is what checksum_create(script) returned.
Computed(script, c) ==
    [res |-> IF c.panic THEN Panic("checksum_expand")
             ELSE Ok(script \o <<"#">> \o c.val),
     engine |-> EngineCreated(script, c)]

\* Verified that does not look at what checksum_check returned: the fault
\* VerifyOrder is checked against.
Verified_unchecked(script, checksum, c) ==
    [res |-> OkFmt("Veritification of the '{}' script succeeded!",
                   script \o <<"#">> \o checksum),
     engine |-> EngineChecked(script, c)]

\* The return of script_operation when the configuration asks to verify:
\* c is what checksum_check(script, checksum) returned.
Verified(script, checksum, c) ==
    [res |-> IF c.panic THEN Panic("checksum_expand")
             ELSE IF c.val
             THEN OkFmt("Veritification of the '{}' script succeeded!",
                        script \o <<"#">> \o checksum)
             ELSE Err("checksum verification failed!"),
     engine |-> EngineChecked(script, c)]

\* script_operation that keeps, when asked to compute, a supplied checksum of
\* the right length: the fault ComputeIgnoresTail is checked against.
script_operation_keeps_supplied(script, some, checksum, cfg) ==
    IF cfg.compute_checksum /\ ~(some /\ checksum_length_check(checksum))
    THEN Computed(script, checksum_create(script))
    ELSE IF some
    THEN IF checksum_length_check(checksum)
         THEN IF cfg.verify_checksum
              THEN Verified(script, checksum, checksum_check(script, checksum))
              ELSE [res |-> Ok(script \o <<"#">> \o checksum), engine |-> NoEngineCall]
         ELSE [res |-> Err("checksum length is incorrect!"), engine |-> NoEngineCall]
    ELSE IF cfg.verify_checksum
         THEN [res |-> Err("checksum is required for verification!"),
               engine |-> NoEngineCall]
         ELSE [res |-> Ok(script), engine |-> NoEngineCall]

\* fn script_operation(script, checksum: Option<&String>, config)
\*     -> Result<String, ParsingError>
\* [res |-> the Result, engine |-> the engine call made]
script_operation(script, some, checksum, cfg) ==
    IF cfg.compute_checksum
    THEN \* ignores checksum
         Computed(script, checksum_create(script))
    ELSE IF some
    THEN IF checksum_length_check(checksum)
         THEN IF cfg.verify_checksum
              THEN Verified(script, checksum, checksum_check(script, checksum))
              ELSE [res |-> Ok(script \o <<"#">> \o checksum), engine |-> NoEngineCall]
         ELSE [res |-> Err("checksum length is incorrect!"), engine |-> NoEngineCall]
    ELSE IF cfg.verify_checksum
         THEN [res |-> Err("checksum is required for verification!"),
               engine |-> NoEngineCall]
         ELSE [res |-> Ok(script), engine |-> NoEngineCall]

\* ScriptExpressionConfig::default()
DefaultConfig == [compute_checksum |-> FALSE, verify_checksum |-> FALSE]

\* The raw arm of the match of script_expression, on a == extract_args("raw").
RawArgsArm(a) ==
    IF a.res.kind # "Ok" THEN a.res
    ELSE IF Len(a.args) = 1
    THEN assert_hexadecimal_format(a.args[1], "raw function argument")
    ELSE Err("script parsing failed!")

RawArm(rest) == RawArgsArm(extract_args(rest, "raw"))

\* The multi arm once arg_count.parse::<i32>() returned arg_count.
MultiCountArm(arg_count, rest_of_args) ==
    IF arg_count.res.kind # "Ok" THEN arg_count.res
    ELSE IF arg_count.val < 0
    THEN Err("arg count indicator cannot be negative")
    ELSE IF arg_count.val <= Len(rest_of_args)
    THEN FirstFailure([k \in 1..Len(rest_of_args) |->
                           validate_key_expression(rest_of_args[k])])
    ELSE Err("arg count indicator cannot be higher than actual args count")

\* The multi arm, on a == extract_args("multi").
MultiArgsArm(a) ==
    IF a.res.kind # "Ok" THEN a.res
    ELSE IF Len(a.args) >= 1
    THEN MultiCountArm(parse_i32(a.args[1]), Tail(a.args))
    ELSE Err("at least two arguments needed")

MultiArm(rest) == MultiArgsArm(extract_args(rest, "multi"))

\* The pkh and pk arms, on a == extract_args(keyword).
KeyArgsArm(a, keyword) ==
    IF a.res.kind # "Ok" THEN a.res
    ELSE IF Len(a.args) = 1 THEN validate_key_expression(a.args[1])
    ELSE IF keyword = "pkh" THEN Err("exactly one argument is needed for pkh script")
    ELSE Err("exactly one argument is needed for pk script")

KeyArm(rest, keyword) == KeyArgsArm(extract_args(rest, keyword), keyword)

\* The arm of the match that a script starting with multi, pkh or pk takes
\* (the raw arm comes first in the match and does not apply to such a script).
KeyedArm(chars) ==
    IF StartsWith(chars, <<"m","u","l","t","i">>)
    THEN MultiArm(SubSeq(chars, 6, Len(chars)))
    ELSE IF StartsWith(chars, <<"p","k","h">>)
    THEN KeyArm(SubSeq(chars, 4, Len(chars)), "pkh")
    ELSE KeyArm(SubSeq(chars, 3, Len(chars)), "pk")

\* AfterMatch that hands the trimmed script to script_operation: the fault
\* PlainReturn is checked against.
AfterMatch_trimmed(m, d, cfg) ==
    IF m.kind # "Ok" THEN [res |-> m, engine |-> NoEngineCall]
    ELSE script_operation(trimify_chars(d.script), d.some, d.checksum, cfg)

\* What a call returns once the match returned m: the error of the match,
\* else what script_operation returns.
AfterMatch(m, d, cfg) ==
    IF m.kind # "Ok" THEN [res |-> m, engine |-> NoEngineCall]
    ELSE script_operation(d.script, d.some, d.checksum, cfg)

\* The nested call on the parts d of arg.
NestedDivided(d) ==
    AfterMatch(KeyedArm(trimify_chars(d.script)), d, DefaultConfig).res

\* script_expression(arg, &ScriptExpressionConfig::default()) as the sh arm
\* calls it.  arg starts with pk, pkh or multi, so the match of the nested
\* call takes the multi, pkh or pk arm, never the sh arm: the recursion is one
\* level deep and is written out here.
NestedScriptExpression(arg) == NestedDivided(divide_script_and_checksum(arg))

\* ShArgAccepted that takes an sh script too: the fault BoundedRecursion is
\* checked against.
ShArgAccepted_with_sh(arg) ==
    \/ StartsWith(arg, <<"p","k","h">>)
    \/ StartsWith(arg, <<"p","k">>)
    \/ StartsWith(arg, <<"m","u","l","t","i">>)
    \/ StartsWith(arg, <<"s","h">>)

\* The guard of the first [arg] arm of the sh match:
\* arg.starts_with("pkh") || arg.starts_with("pk") || arg.starts_with("multi")
ShArgAccepted(arg) ==
    \/ StartsWith(arg, <<"p","k","h">>)
    \/ StartsWith(arg, <<"p","k">>)
    \/ StartsWith(arg, <<"m","u","l","t","i">>)

\* The sh arm on its single argument.
ShArgArm(arg) ==
    IF ShArgAccepted(arg)
    THEN NestedScriptExpression(arg)
    ELSE script_sh_unsupported_arg_err(arg)

\* The arm of the match of script_expression that chars takes, by the order
\* of the arms.
ArmOf(chars) ==
    IF StartsWith(chars, <<"r","a","w">>) THEN "raw"
    ELSE IF StartsWith(chars, <<"m","u","l","t","i">>) THEN "multi"
    ELSE IF StartsWith(chars, <<"p","k","h">>) THEN "pkh"
    ELSE IF StartsWith(chars, <<"p","k">>) THEN "pk"
    ELSE IF StartsWith(chars, <<"s","h">>) THEN "sh"
    ELSE "none"

\* The sh arm calls script_expression again: extract_args returned one
\* argument and the guard of the arm accepts it.
ShRecurses(a) ==
    a.res.kind = "Ok" /\ Len(a.args) = 1 /\ ShArgAccepted(a.args[1])

\* The sh arm, on a == extract_args("sh").
ShArgsArm(a) ==
    IF a.res.kind # "Ok" THEN a.res
    ELSE IF Len(a.args) = 1 THEN ShArgArm(a.args[1])
    ELSE Err("exactly one argument is needed for sh script")

ShArm(rest) == ShArgsArm(extract_args(rest, "sh"))

\* The match of script_expression on script.charify().trimify(): the error
\* an arm returns, or Ok when the match falls through to script_operation.
MatchScript(chars) ==
    IF StartsWith(chars, <<"r","a","w">>)
    THEN RawArm(SubSeq(chars, 4, Len(chars)))
    ELSE IF StartsWith(chars, <<"m","u","l","t","i">>)
    THEN MultiArm(SubSeq(chars, 6, Len(chars)))
    ELSE IF StartsWith(chars, <<"p","k","h">>)
    THEN KeyArm(SubSeq(chars, 4, Len(chars)), "pkh")
    ELSE IF StartsWith(chars, <<"p","k">>)
    THEN KeyArm(SubSeq(chars, 3, Len(chars)), "pk")
    ELSE IF StartsWith(chars, <<"s","h">>)
    THEN ShArm(SubSeq(chars, 3, Len(chars)))
    ELSE Err("parsing of the script failed!")

\* script_expression on the parts d of the input.
ScriptDivided(d, cfg) == AfterMatch(MatchScript(trimify_chars(d.script)), d, cfg)

\* pub fn script_expression(input, config) -> Result<String, ParsingError>
\* [res |-> the Result, engine |-> the engine call made]
script_expression(inp, cfg) == ScriptDivided(divide_script_and_checksum(inp), cfg)

-----------------------------------------------------------------------------
(* The calls made to the two entry points                                  *)

\* Bounds of the inputs
MaxPad == 1         \* spaces put around every token of a script: 0..MaxPad
MaxKeys == 2        \* keys of a multi script: 0..MaxKeys
MaxTailLen == 9     \* longest checksum tail cut from TailSource
MaxEngineLen == 3   \* longest string over EngineAlphabet given to the engine
MaxTailedLen == 40   \* longest script that is given every tail of Tails

Spaces(n) == [i \in 1..n |-> SPACE]

\* keyword(args), with p spaces around every token
Expr(keyword, args, p) ==
    Spaces(p) \o keyword \o Spaces(p) \o <<"(">> \o Spaces(p) \o args
    \o Spaces(p) \o <<")">> \o Spaces(p)

\* Arguments of raw: hexadecimal, with an inner space, odd, empty, not
\* hexadecimal, with a two-byte character last and first, two arguments, a tab.
RawArgs ==
    { <<"d","e","a","d","b","e","e","f">>, <<"D","E","A"," ","D"," ","B","E","E","F">>, <<"a","b","c">>, <<>>, <<"x","y","z">>,
      <<"a","U+00E9">>, <<"U+00E9","a">>, <<"U+00A0","a","b">>, <<"a","b",",","c","d">>, <<"\t","a","b">> }

\* subcommands/script_expression.rs tests: a key origin
KEY_ORIGIN_A == <<"[","d","e","a","d","b","e","e","f","/","0","h","/","1","h","/","2","]">>

GoodKeys ==
    { KEY_HEX_02, KEY_WIF_A, KEY_XPUB_A, KEY_ORIGIN_A \o KEY_HEX_02,
      KEY_XPUB_A \o <<"/","0","/","*">> }

\* Not a key, empty, a character outside ALLOWED_CHAR_SET, a two-byte
\* character last, a hexadecimal key cut short.
BadKeys ==
    { <<"i","n","v","a","l","i","d"," ","k","e","y">>, <<>>, <<"0","2","\"">>, <<"0","2","U+00E9">>,
      SubSeq(KEY_HEX_02, 1, 64) }

\* The decimal digit of 0 <= n <= 9, as a string
DigitStr(n) == <<DecDigits[n + 1]>>

\* n keys separated by a comma and p spaces, the last of them `last`
RECURSIVE KeyList(_, _, _)
KeyList(n, last, p) ==
    IF n = 0 THEN <<>>
    ELSE IF n = 1 THEN <<",">> \o Spaces(p) \o last
    ELSE <<",">> \o Spaces(p) \o KEY_HEX_02 \o KeyList(n - 1, last, p)

\* Arguments of multi: a count that is negative, zero, the number of keys,
\* one more, signed, above 2^31 - 1, or no number; the last key good, bad, or
\* ending in a two-byte character.
MultiArgs(p) ==
    UNION { { count \o KeyList(n, last, p) :
                count \in { <<"-","1">>, <<"0">>, <<"+","1">>, <<"x">>,
                            <<"9","9","9","9","9","9","9","9","9","9">> }
                          \cup { DigitStr(k) : k \in {n, n + 1} },
                last \in { KEY_HEX_02, <<"i","n","v","a","l","i","d"," ","k","e","y">>,
                           <<"0","2","U+00E9">> } }
            : n \in 0..MaxKeys }

\* Arguments of sh: valid pk, pkh and multi scripts, invalid ones, raw and sh
\* scripts, no argument, other text, a two-byte character last, two arguments.
ShArgs(p) ==
    { Expr(<<"p","k">>, KEY_HEX_02, p), Expr(<<"p","k","h">>, KEY_WIF_A, p),
      Expr(<<"m","u","l","t","i">>, <<"0">>, p), Expr(<<"m","u","l","t","i">>, <<"1">> \o KeyList(1, KEY_HEX_02, p), p),
      Expr(<<"p","k">>, <<"i","n","v","a","l","i","d"," ","k","e","y">>, p), Expr(<<"m","u","l","t","i">>, <<"1">>, p),
      Expr(<<"r","a","w">>, <<"d","e","a","d","b","e","e","f">>, p), Expr(<<"s","h">>, Expr(<<"p","k">>, KEY_HEX_02, p), p),
      <<>>, <<"d","e","a","d","b","e","e","f">>, <<"p","k","x">>, <<"m","u","l","t","i">>, <<"a","U+00E9">>, <<"U+00E9","a">>,
      <<"m","u","l","t","i","(","0",")",",","m","u","l","t","i","(","0",")">> }

\* The script part of an input
Scripts ==
    UNION { { Expr(<<"r","a","w">>, a, p) : a \in RawArgs }
            \cup { Expr(<<"p","k">>, k, p) : k \in GoodKeys \cup BadKeys }
            \cup { Expr(<<"p","k","h">>, k, p) : k \in { KEY_WIF_A, <<"i","n","v","a","l","i","d"," ","k","e","y">> } }
            \cup { Expr(<<"m","u","l","t","i">>, a, p) : a \in MultiArgs(p) }
            \cup { Expr(<<"s","h">>, a, p) : a \in ShArgs(p) }
            \cup { Expr(<<"p","k">>, KEY_WIF_A \o <<",">> \o KEY_WIF_A, p) }
          : p \in 0..MaxPad }
    \cup { <<>>, <<"x","x","(","a","b",")">>, <<"r","a","w","r","a","w",")">>, <<"r","a","w">>, <<"r","a","w","(","a","b">>, <<"r","a","w","(","a","b",")",")">>, <<"r","a","w","(","a","b",")","x">>,
           <<"U+00E9">>, <<"\t">> \o <<"r","a","w","(","a","b",")">> }

\* The checksum of raw(deadbeef), followed by more checksum characters
TailSource == <<"8","9","f","8","s","p","x","m","x","q","p","z","r","y","9","x">>

TailLens == {0, CHECKSUM_LENGTH - 1, CHECKSUM_LENGTH} \cup ((CHECKSUM_LENGTH + 1)..MaxTailLen)

\* What follows the script: nothing, or # and a tail of a length around
\* CHECKSUM_LENGTH, a tail with a character outside CHECKSUM_CHARSET, with a
\* two-byte character, with a second #.
Tails ==
    { <<>> }
    \cup { <<"#">> \o SubSeq(TailSource, 1, n) : n \in TailLens }
    \cup { <<"#","0","i","n","v","a","l","i","d">>, <<"#","q","q","q","q","q","q","q","U+00E9">>, <<"#","#","8","9","f","8","s","p","x","m">>,
           <<"#","#","8","9","f","8","s","p","x">> }

\* The tails put behind a script: every tail behind a short script, no tail
\* and the tail of CHECKSUM_LENGTH characters behind a long one.
TailsFor(script) ==
    IF Len(script) <= MaxTailedLen THEN Tails
    ELSE { <<>>, <<"#">> \o SubSeq(TailSource, 1, CHECKSUM_LENGTH) }

Inputs == UNION { { script \o tail : tail \in TailsFor(script) } : script \in Scripts }

Configs == [compute_checksum : BOOLEAN, verify_checksum : BOOLEAN]

\* The result before the call returns
NoResult == [kind |-> "None", msg |-> "", label |-> "", val |-> <<>>]

\* No command line is run and no call is followed step by step: the
\* functions are called on their own.
NoCli ==
    /\ stack = <<>>
    /\ command = "none"
    /\ inputs = <<>>
    /\ position = 0
    /\ stdout = <<>>
    /\ stderr = <<>>
    /\ status = "none"
    /\ code = 0

\* One call of script_expression on any input with any configuration.
Init ==
    /\ NoCli
    /\ input \in Inputs
    /\ config \in Configs
    /\ result = NoResult
    /\ pc = "call"
    /\ origin = "fresh"
    /\ s = <<>>
    /\ created = <<>>
    /\ checked = FALSE
    /\ epc = "idle"

\* The call returned r.
Returns(r) ==
    /\ result' = r.res
    /\ s' = r.engine.s
    /\ created' = r.engine.created
    /\ checked' = r.engine.checked
    /\ epc' = r.engine.epc

\* script_expression(input, config) runs and returns (or aborts).
Call ==
    /\ pc = "call"
    /\ Returns(script_expression(input, config))
    /\ pc' = "returned"
    /\ UNCHANGED <<input, config, origin>>
    /\ UNCHANGED cli

\* The caller hands the string a compute call produced to a second call.
Resubmit ==
    /\ pc = "returned"
    /\ origin = "fresh"
    /\ config.compute_checksum
    /\ result.kind = "Ok"
    /\ input' = result.val
    /\ \E cfg \in Configs : config' = cfg
    /\ origin' = IF Contains(input, CHECKSUM_DIVIDER_SYMBOL) THEN "recomputed" ELSE "computed"
    /\ result' = NoResult
    /\ pc' = "call"
    /\ s' = <<>>
    /\ created' = <<>>
    /\ checked' = FALSE
    /\ epc' = "idle"
    /\ UNCHANGED cli

Next == Call \/ Resubmit

Spec == Init /\ [][Next]_vars

-----------------------------------------------------------------------------
(* The checksum engine called on its own                                   *)

\* Characters of each of the three groups of INPUT_CHARSET, and a tab, which
\* is outside it.
EngineAlphabet == {"9", "J", "i", "\"", SPACE, "\t"}

\* subcommands/utils/checksum.rs tests: test_checksum_create
TestVectors ==
    { [script |-> <<"r","a","w","(","d","e","a","d","b","e","e","f",")">>, checksum |-> <<"8","9","f","8","s","p","x","m">>],
      [script |-> <<"r","a","w","("," ","d","e","a","d","b","e","e","f"," ",")">>, checksum |-> <<"9","8","5","d","v","2","z","l">>],
      [script |-> <<"r","a","w","(","D","E","A","D"," ","B","E","E","F",")">>, checksum |-> <<"q","q","n","7","l","l","2","h">>],
      [script |-> <<"r","a","w","(","D","E","A"," ","D"," ","B","E","E","F",")">>, checksum |-> <<"e","g","s","9","f","w","s","r">>],
      [script |-> <<"p","k","h","(">> \o KEY_XPUB_A \o <<")">>, checksum |-> <<"v","m","4","x","c","4","e","d">>] }

EngineInputs ==
    UNION { [1..n -> EngineAlphabet] : n \in 0..MaxEngineLen }
    \cup { v.script : v \in TestVectors }

InitChecksum ==
    /\ NoCli
    /\ s \in EngineInputs
    /\ created = <<>>
    /\ checked = FALSE
    /\ epc = "start"
    /\ input = <<>>
    /\ config = DefaultConfig
    /\ result = NoResult
    /\ pc = "engine"
    /\ origin = "engine"

\* checksum_create returned c, or aborted.
Creates(c) ==
    /\ created' = c.val
    /\ epc' = IF c.panic THEN "aborted" ELSE "created"

\* checksum_create(s)
Create ==
    /\ epc = "start"
    /\ Creates(checksum_create(s))
    /\ UNCHANGED <<s, checked, input, config, result, pc, origin>>
    /\ UNCHANGED cli

\* checksum_check returned c, or aborted.
Checks(c) ==
    /\ checked' = c.val
    /\ epc' = IF c.panic THEN "aborted" ELSE "checked"

\* checksum_check(s, created): the check of the checksum just created
Check ==
    /\ epc = "created"
    /\ Checks(checksum_check(s, created))
    /\ UNCHANGED <<s, created, input, config, result, pc, origin>>
    /\ UNCHANGED cli

\* The character that follows c in CHECKSUM_CHARSET, the first one after
\* the last
NextChecksumChar(c) ==
    CHECKSUM_CHARSET[((Find(CHECKSUM_CHARSET, c) + 1) % Len(CHECKSUM_CHARSET)) + 1]

\* Checksums given to checksum_check for a script whose checksum is c: c,
\* c with one character replaced by another of CHECKSUM_CHARSET, the
\* checksum of raw(deadbeef), c without its last character, c with one
\* character more, the empty string, and c with a character that is not in
\* CHECKSUM_CHARSET (b, an upper-case letter, a character of two bytes).
Candidates(c) ==
    { c, <<"8","9","f","8","s","p","x","m">>, SubSeq(c, 1, Len(c) - 1),
      Append(c, "q"), c \o c, <<>> }
    \cup { [c EXCEPT ![k] = NextChecksumChar(c[k])] : k \in {1, 4, 8} }
    \cup { [c EXCEPT ![k] = x] : k \in {1, 8}, x \in {"b", "Q", "U+00E9"} }

\* checksum_check(s, c) for a checksum c that is given: input takes c.
CheckGiven ==
    /\ epc = "created"
    /\ \E c \in Candidates(created) :
          /\ input' = c
          /\ checked' = checksum_check(s, c).val
          /\ epc' = IF checksum_check(s, c).panic THEN "aborted" ELSE "given_checked"
    /\ UNCHANGED <<s, created, config, result, pc, origin>>
    /\ UNCHANGED cli

NextChecksum == Create \/ Check \/ CheckGiven

SpecChecksum == InitChecksum /\ [][NextChecksum]_vars

-----------------------------------------------------------------------------
(* The checksum algorithm stated on symbols: the accumulator is eight 5-bit *)
(* symbols, the most significant first, and a generator is eight symbols.  *)

\* 0xf5dee51989, 0xa9fdca3312, 0x1bab10e32d, 0x3706b1677a, 0x644d626ffd
RefGenerator ==
    << <<30, 23, 15, 14, 10, 6, 12, 9>>,
       <<21, 7, 30, 28, 20, 12, 24, 18>>,
       <<3, 14, 21, 17, 1, 24, 25, 13>>,
       <<6, 28, 3, 11, 2, 25, 27, 26>>,
       <<12, 17, 6, 22, 4, 27, 31, 29>> >>

RefBit(v, i) == (v \div Pow2[i + 1]) % 2

\* a XOR b for two 5-bit symbols
RefXor5(a, b) ==
    ((RefBit(a, 0) + RefBit(b, 0)) % 2) + 2 * ((RefBit(a, 1) + RefBit(b, 1)) % 2)
    + 4 * ((RefBit(a, 2) + RefBit(b, 2)) % 2) + 8 * ((RefBit(a, 3) + RefBit(b, 3)) % 2)
    + 16 * ((RefBit(a, 4) + RefBit(b, 4)) % 2)

RefXor(x, y) ==
    << RefXor5(x[1], y[1]), RefXor5(x[2], y[2]), RefXor5(x[3], y[3]),
       RefXor5(x[4], y[4]), RefXor5(x[5], y[5]), RefXor5(x[6], y[6]),
       RefXor5(x[7], y[7]), RefXor5(x[8], y[8]) >>

\* The generator i when bit i of top is set, else zero
RefSelect(top, i) ==
    IF RefBit(top, i) = 1 THEN RefGenerator[i + 1] ELSE <<0, 0, 0, 0, 0, 0, 0, 0>>

\* One symbol: the top symbol leaves, value enters at the bottom, and the
\* generators the bits of the top symbol select are added.
RefStep(c, value) ==
    RefXor(RefXor(RefXor(RefXor(RefXor(
        <<c[2], c[3], c[4], c[5], c[6], c[7], c[8], value>>,
        RefSelect(c[1], 0)), RefSelect(c[1], 1)), RefSelect(c[1], 2)),
        RefSelect(c[1], 3)), RefSelect(c[1], 4))

RECURSIVE RefPolymod(_, _, _, _)
\* The symbols lo..hi in order (first half, then second half)
RefPolymod(c, symbols, lo, hi) ==
    IF lo > hi THEN c
    ELSE IF lo = hi THEN RefStep(c, symbols[lo])
    ELSE LET mid   == (lo + hi) \div 2
             first == RefPolymod(c, symbols, lo, mid)
         IN IF first = first THEN RefPolymod(first, symbols, mid + 1, hi) ELSE first

\* The checksum of the expanded symbols: the accumulator starts at 1, runs
\* over the symbols and eight zero symbols, is XORed with 1, and its eight
\* symbols, the most significant first, are mapped through CHECKSUM_CHARSET.
RefChecksum(symbols) ==
    LET c == RefPolymod(<<0, 0, 0, 0, 0, 0, 0, 1>>,
                        symbols \o <<0, 0, 0, 0, 0, 0, 0, 0>>, 1, Len(symbols) + 8)
    IN [k \in 1..8 |->
            CHECKSUM_CHARSET[(IF k = 8 THEN RefXor5(c[8], 1) ELSE c[k]) + 1]]

InInputCharset(str) == \A i \in 1..Len(str) : Contains(INPUT_CHARSET, str[i])

-----------------------------------------------------------------------------
(* Properties of the checksum engine (SpecChecksum)                        *)

\* C1: for every string s of input-alphabet characters, checksum_create(s)
\* returns and checksum_check(s, checksum_create(s)) is true.
RoundTrip ==
    InInputCharset(s) =>
        /\ epc # "aborted"
        /\ epc = "checked" => checked = TRUE

\* A string of three characters, of more than one group, was created and
\* checked.
RoundTripWitness ==
    /\ epc = "checked"
    /\ checked = TRUE
    /\ s = <<"J", "\"", SPACE>>

\* C2: checksum_create(script) is the reference algorithm run over
\* checksum_expand(script), and the checksums of the repository's test
\* scripts are the ones the tests state: raw(deadbeef) gives 89f8spxm.
CreateIsReference ==
    epc \in {"created", "checked"} =>
        /\ created = RefChecksum(checksum_expand(s).symbols)
        /\ \A v \in TestVectors : s = v.script => created = v.checksum

CreateIsReferenceWitness ==
    /\ epc = "created"
    /\ s = <<"r","a","w","(","d","e","a","d","b","e","e","f",")">>
    /\ created = <<"8","9","f","8","s","p","x","m">>

\* The accumulator of checksum_polymod stays below 2^40 from checksum on,
\* over symbols[lo..hi] (run as the first half followed by the second):
\* [ok |-> it did, acc |-> the accumulator after symbols[hi]]
RECURSIVE PolymodBelow(_, _, _, _)
PolymodBelow(checksum, symbols, lo, hi) ==
    IF lo > hi THEN [ok |-> IsZero(Shr(checksum, 40)), acc |-> checksum]
    ELSE IF lo = hi
    THEN LET next == PolymodStep(checksum, symbols[lo]) IN
         [ok |-> IsZero(Shr(checksum, 40)) /\ IsZero(Shr(next, 40)), acc |-> next]
    ELSE LET mid   == (lo + hi) \div 2
             first == PolymodBelow(checksum, symbols, lo, mid)
         IN IF first.ok THEN PolymodBelow(first.acc, symbols, mid + 1, hi) ELSE first

\* The places of the group symbols among the symbols of a script of n
\* characters: every fourth symbol, and the last one when n is no multiple
\* of three.
GroupPlaces(n) ==
    { 4 * j : j \in 1..(n \div 3) }
    \cup (IF n % 3 = 0 THEN {} ELSE { n + (n \div 3) + 1 })

\* C29: for a script of input-alphabet characters, every symbol of
\* checksum_expand is in 0..31 and every group symbol is at most 26; the
\* accumulator of checksum_polymod is below 2^40 after every step, over the
\* symbols followed by the eight zeros of checksum_create, so top is below
\* 32; and checksum_create yields 8 characters of CHECKSUM_CHARSET.
EngineRanges ==
    InInputCharset(s) =>
        LET e == checksum_expand(s) IN
        /\ ~e.panic
        /\ Len(e.symbols) = Len(s) + (Len(s) + 2) \div 3
        /\ \A i \in 1..Len(e.symbols) : e.symbols[i] \in 0..31
        /\ \A i \in GroupPlaces(Len(s)) : e.symbols[i] \in 0..26
        /\ PolymodBelow(U64(1), e.symbols \o [i \in 1..CHECKSUM_LENGTH |-> 0],
                        1, Len(e.symbols) + CHECKSUM_LENGTH).ok
        /\ epc \in {"created", "checked"} =>
              /\ Len(created) = CHECKSUM_LENGTH
              /\ \A k \in 1..Len(created) : Find(CHECKSUM_CHARSET, created[k]) >= 0

\* The checksum of "iii", whose group symbol is 26, was created.
EngineRangesWitness ==
    /\ epc = "created"
    /\ s = <<"i", "i", "i">>
    /\ checksum_expand(s).symbols = <<0, 0, 0, 26>>
    /\ Len(created) = CHECKSUM_LENGTH

\* C30: for a script of input-alphabet characters, checksum_check(s, c)
\* returns, and returns true exactly when c is checksum_create(s): a c of
\* another length than 8, or with a character outside CHECKSUM_CHARSET, or
\* of 8 characters of CHECKSUM_CHARSET that differs from the checksum
\* created, gives false.
OneChecksumPasses ==
    InInputCharset(s) =>
        /\ epc # "aborted"
        /\ epc = "given_checked" =>
              /\ checked = (input = created)
              /\ Len(input) # CHECKSUM_LENGTH => checked = FALSE
              /\ (\E k \in 1..Len(input) : Find(CHECKSUM_CHARSET, input[k]) < 0) =>
                    checked = FALSE

\* The checksum of raw(deadbeef) with its first character replaced by the
\* one that follows it in CHECKSUM_CHARSET did not pass.
OneChecksumPassesWitness ==
    /\ epc = "given_checked"
    /\ s = <<"r","a","w","(","d","e","a","d","b","e","e","f",")">>
    /\ created = <<"8","9","f","8","s","p","x","m">>
    /\ input = <<"g","9","f","8","s","p","x","m">>
    /\ checked = FALSE

-----------------------------------------------------------------------------
(* Properties of script_expression (Spec)                                  *)

\* The text of the input before its first #, and whether and what follows it
HasTail == Contains(input, "#")
ScriptPart == IF HasTail THEN SubSeq(input, 1, FirstIndex(input, "#") - 1) ELSE input
TailPart == IF HasTail THEN SubSeq(input, FirstIndex(input, "#") + 1, Len(input)) ELSE <<>>

\* The script part passes the grammar: the match of script_expression on it
\* returns no error.
GrammarValid == MatchScript(trimify_chars(ScriptPart)).kind = "Ok"

Returned == pc = "returned"

ComputeOnly == [compute_checksum |-> TRUE, verify_checksum |-> FALSE]
VerifyOnly == [compute_checksum |-> FALSE, verify_checksum |-> TRUE]

\* C3: a call with verify=true on the string that a call with compute=true
\* produced from a valid script without a checksum succeeds; with verify
\* alone it returns the confirmation of that string.
ComputeThenVerify ==
    (Returned /\ origin = "computed" /\ config.verify_checksum) =>
        /\ result.kind = "Ok"
        /\ ~config.compute_checksum =>
              /\ result = OkFmt("Veritification of the '{}' script succeeded!", input)
              /\ checked = TRUE

\* The string computed for a padded pk script was verified.
ComputeThenVerifyWitness ==
    /\ Returned
    /\ origin = "computed"
    /\ config = VerifyOnly
    /\ result.kind = "Ok"
    /\ StartsWith(input, <<" ", "p", "k", " ", "(">>)

\* C4: script_expression returns Ok or Err for every input and
\* configuration; no input makes it abort.
NeverAborts == Returned => result.kind \in {"Ok", "Err"}

\* C5: when script_expression calls the checksum engine, every character of
\* the script it hands over is an input-alphabet character, so the engine
\* does not abort; and a script part with a character outside the alphabet
\* is reported as an error.
EngineAfterValidation ==
    /\ epc # "idle" => (InInputCharset(s) /\ epc # "aborted")
    /\ (Returned /\ ~InInputCharset(ScriptPart)) => result.kind = "Err"

ComputeIgnoresTail ==
    (Returned /\ config.compute_checksum /\ GrammarValid) =>
        /\ epc = "created"
        /\ s = ScriptPart
        /\ created = checksum_create(ScriptPart).val
        /\ result = Ok(ScriptPart \o <<"#">> \o created)

\* A padded script with a supplied tail of eight characters was given a
\* computed checksum that is not the supplied one.
ComputeIgnoresTailWitness ==
    /\ Returned
    /\ config = ComputeOnly
    /\ result.kind = "Ok"
    /\ Len(TailPart) = CHECKSUM_LENGTH
    /\ created # TailPart
    /\ ScriptPart = <<" ","r","a","w"," ","("," ","d","e","a","d","b","e","e","f"," ",")"," ">>

PlainReturn ==
    (Returned /\ config = DefaultConfig /\ GrammarValid) =>
        /\ epc = "idle"
        /\ (HasTail /\ Len(TailPart) = CHECKSUM_LENGTH) =>
              result = Ok(ScriptPart \o <<"#">> \o TailPart)
        /\ ~HasTail => result = Ok(input)

\* A padded script with a tail that is no checksum was returned verbatim.
PlainReturnWitness ==
    /\ Returned
    /\ config = DefaultConfig
    /\ TailPart = <<"0","i","n","v","a","l","i","d">>
    /\ StartsWith(input, <<" ">>)
    /\ result = Ok(input)

\* The i-th character of input is its first '#'.
IsFirstDivider(i) == input[i] = "#" /\ \A j \in 1..(i - 1) : input[j] # "#"

\* What stands before and after the i-th character of input
Before(i) == SubSeq(input, 1, i - 1)
After(i) == SubSeq(input, i + 1, Len(input))

\* The match of script_expression accepts the script.
MatchOk(script) == MatchScript(trimify_chars(script)).kind = "Ok"

\* DividesAtFirstDivider for an input whose first '#' is its i-th character
DividedAt(i) ==
    /\ (config.compute_checksum /\ result.kind = "Ok") =>
          /\ s = Before(i)
          /\ result = Ok(Before(i) \o <<"#">> \o created)
    /\ (~config.compute_checksum /\ Len(After(i)) # CHECKSUM_LENGTH) =>
          result = Err("checksum length is incorrect!")
    /\ (~config.compute_checksum /\ ~config.verify_checksum
        /\ Len(After(i)) = CHECKSUM_LENGTH) =>
          result = Ok(input)
    /\ (~config.compute_checksum /\ config.verify_checksum
        /\ Len(After(i)) = CHECKSUM_LENGTH) =>
          /\ s = Before(i)
          /\ epc \in {"checked", "aborted"}
          /\ result.kind = "Ok" =>
                result = OkFmt("Veritification of the '{}' script succeeded!", input)

\* DividesAtFirstDivider for an input without '#'
Undivided ==
    /\ (config.compute_checksum /\ result.kind = "Ok") =>
          /\ s = input
          /\ result = Ok(input \o <<"#">> \o created)
    /\ (~config.compute_checksum /\ config.verify_checksum) =>
          result = Err("checksum is required for verification!")
    /\ (~config.compute_checksum /\ ~config.verify_checksum) =>
          result = Ok(input)

\* C23: script_expression splits its input at the first '#' only.  The
\* script is what stands before it and the checksum what stands after it,
\* further '#' characters included: it is that script that goes through the
\* match and to the engine, and that checksum whose length is compared with
\* CHECKSUM_LENGTH.  An input that ends in its only '#' has a checksum of
\* length 0, which is refused for its length; an input without '#' has no
\* checksum.
DividesAtFirstDivider ==
    Returned =>
        /\ \A i \in 1..Len(input) :
              (IsFirstDivider(i) /\ MatchOk(Before(i))) => DividedAt(i)
        /\ (~Contains(input, "#") /\ MatchOk(input)) => Undivided

\* raw(deadbeef)##89f8spx was returned as given: its checksum is #89f8spx,
\* of CHECKSUM_LENGTH characters.
DividesAtFirstDividerWitness ==
    /\ Returned
    /\ config = DefaultConfig
    /\ input = <<"r","a","w","(","d","e","a","d","b","e","e","f",")","#","#","8","9","f","8","s","p","x">>
    /\ result = Ok(input)

\* The errors of the checksum policy
ChecksumErrors ==
    { Err("checksum length is incorrect!"), Err("checksum verification failed!"),
      Err("checksum is required for verification!") }

\* C24: the checksum policy is applied only after the script part has passed
\* the match: for an input whose script part does not pass it, the call
\* returns the error of the match (a grammar or key error), the same for
\* every tail and every configuration, never an error of the checksum policy
\* or a computed checksum, and the engine is not called.
GrammarBeforeChecksum ==
    (Returned /\ ~GrammarValid) =>
        /\ result.kind = "Err"
        /\ result = MatchScript(trimify_chars(ScriptPart))
        /\ result \notin ChecksumErrors
        /\ epc = "idle"

\* The argument of an sh script: the text between the parentheses, trimmed
ShScript == StartsWith(trimify_chars(ScriptPart), <<"s", "h">>)
ShRest == trimify_chars(SubSeq(trimify_chars(ScriptPart), 3, Len(trimify_chars(ScriptPart))))
ShParenthesised ==
    /\ ShScript
    /\ Len(ShRest) >= 2
    /\ ShRest[1] = "("
    /\ ShRest[Len(ShRest)] = ")"
ShArgument == trimify_chars(SubSeq(ShRest, 2, Len(ShRest) - 1))
ShSingleArgument ==
    /\ ShParenthesised
    /\ \/ Contains(ShArgument, "(") /\ ShArgument[Len(ShArgument)] = ")"
       \/ ~Contains(ShArgument, ",")
ShKeyedArgument ==
    \/ StartsWith(ShArgument, <<"p", "k">>)
    \/ StartsWith(ShArgument, <<"m", "u", "l", "t", "i">>)

\* C10: an sh script is accepted only when its single argument is a pk, pkh
\* or multi script that is valid itself; an sh script whose single argument
\* is anything else fails with the unsupported-argument error naming it.
ShChildren ==
    /\ (Returned /\ ShScript /\ result.kind = "Ok") =>
          /\ ShSingleArgument
          /\ ShKeyedArgument
          /\ MatchScript(ShArgument).kind = "Ok"
    /\ (Returned /\ ShSingleArgument /\ ~ShKeyedArgument) =>
          result = script_sh_unsupported_arg_err(ShArgument)

\* The arguments of a multi script: the comma-separated pieces between the
\* parentheses, trimmed; the first is the count k, the others the n keys.
MultiScript == StartsWith(trimify_chars(ScriptPart), <<"m", "u", "l", "t", "i">>)
MultiRest == trimify_chars(SubSeq(trimify_chars(ScriptPart), 6, Len(trimify_chars(ScriptPart))))
MultiParenthesised ==
    /\ MultiScript
    /\ Len(MultiRest) >= 2
    /\ MultiRest[1] = "("
    /\ MultiRest[Len(MultiRest)] = ")"
    /\ ~Contains(SubSeq(MultiRest, 2, Len(MultiRest) - 1), "(")
MultiPieces == Split(SubSeq(MultiRest, 2, Len(MultiRest) - 1), ",")
MultiK == trimify_chars(MultiPieces[1])
MultiKeys == [k \in 1..(Len(MultiPieces) - 1) |-> trimify_chars(MultiPieces[k + 1])]
AllDigits(str) == Len(str) > 0 /\ \A i \in 1..Len(str) : Find(DecDigits, str[i]) >= 0
\* k is written as an integer: digits with an optional sign
MultiKInteger ==
    /\ MultiParenthesised
    /\ Len(MultiK) > 0
    /\ AllDigits(IF MultiK[1] \in {"+", "-"} THEN Tail(MultiK) ELSE MultiK)
MultiKDigits == IF MultiK[1] \in {"+", "-"} THEN Tail(MultiK) ELSE MultiK
MultiKZero == \A i \in 1..Len(MultiKDigits) : MultiKDigits[i] = "0"
MultiKNegative == MultiK[1] = "-" /\ ~MultiKZero
\* k > n, for the n < 10 keys of the model: k has a non-zero digit before its
\* last one, or its last digit is above n
MultiKAbove(n) ==
    /\ ~MultiKNegative
    /\ \/ \E i \in 1..(Len(MultiKDigits) - 1) : MultiKDigits[i] # "0"
       \/ Find(DecDigits, MultiKDigits[Len(MultiKDigits)]) > n

\* C11: multi(k, KEY_1..KEY_n) with a negative k fails with the negative
\* count error whatever the keys are, with k > n it fails with the error of a
\* count above the number of keys, and with 0 <= k <= n it is accepted
\* exactly when every key passes validate_key_expression.
MultiCounts ==
    (Returned /\ MultiKInteger) =>
        IF MultiKNegative
        THEN result = Err("arg count indicator cannot be negative")
        ELSE IF MultiKAbove(Len(MultiKeys))
        THEN result = Err("arg count indicator cannot be higher than actual args count")
        ELSE (config = DefaultConfig /\ ~HasTail) =>
                (result.kind = "Ok" <=>
                    \A k \in 1..Len(MultiKeys) :
                        validate_key_expression(MultiKeys[k]).kind = "Ok")

-----------------------------------------------------------------------------
(* The key validators called on their own                                  *)

MaxDepth == 2       \* depths of the attributes given to validate_extended_key_attrs: 0..MaxDepth
MaxSlack == 1       \* hex keys are 66 and 130 characters long, give or take 0..MaxSlack

\* A hex encoded key of n characters: the prefix and the digits of KEY_HEX_02
HexKey(prefix, n) == prefix \o [i \in 1..(n - 2) |-> KEY_HEX_02[3 + ((i - 1) % 64)]]

\* The string with its last character replaced by c
WithLast(str, c) == SubSeq(str, 1, Len(str) - 1) \o <<c>>

HexKeyLens == {2} \cup UNION { {66 - d, 66 + d, 130 - d, 130 + d} : d \in 0..MaxSlack }

\* Bodies that start with 02, 03 or 04: of the two lengths and around them,
\* in upper case, with a character that is no hexadecimal digit.
HexBodies ==
    LET keys == { HexKey(prefix, n) : prefix \in {<<"0","2">>, <<"0","3">>, <<"0","4">>},
                                      n \in HexKeyLens }
    IN keys \cup { WithLast(k, c) : k \in keys, c \in {"F", "g", "U+00E9"} }

\* Derivation suffixes of an extended key: none, valid ones, and invalid ones
PathSuffixes ==
    { <<>>, <<"/","3","/","4","/","5">>, <<"/","3","h","/","4","h","/","5","h","/","*","h">>, <<"/","*">>,
      <<"/","1","a","a">>, <<"/","2","1","4","7","4","8","3","6","4","8">>, <<"/">>, <<"/","*","/","0">>,
      <<"/","*","/","*">>, <<"/","0","/","*","h","/","*">>, <<"/","0","/","/","1">>, <<"/","0","/">>,
      <<"/","0","/","*","/">>, <<"/","0","h","/","*">>, <<"/","*","H">>, <<"/","2","1","4","7","4","8","3","6","4","7","/","*","h">> }

\* Bodies that start with xpub or xprv
ExtendedBodies ==
    { e.key \o suffix : e \in ExtendedKeyTable, suffix \in PathSuffixes }
    \cup { <<"x","p","r","v","1","2","3">>, <<"x","p","u","b">>, <<"x","p","u","b">> \o SubSeq(KEY_XPRV_A, 5, Len(KEY_XPRV_A)) }

\* Bodies treated as WIF: valid ones, with an altered checksum, of a wrong
\* length, with a wrong first byte, and strings that are no base58.
WifBodies ==
    { KEY_WIF_A, KEY_WIF_B, KEY_WIF_COMPRESSED, KEY_WIF_COMPRESSED_BAD_CHECKSUM,
      KEY_WIF_BAD_CHECKSUM, KEY_WIF_BAD_VERSION, KEY_WIF_BAD_VERSION_BAD_CHECKSUM,
      KEY_WIF_SHORT, KEY_WIF_LONG, WithLast(KEY_WIF_A, "t"),
      WithLast(KEY_WIF_A, "0"), WithLast(KEY_WIF_A, "U+00E9"), KEY_WIF_A \o <<"/","0">>,
      <<"1","1","1","1">>, <<"1">> \o KEY_WIF_A, <<"i","n","v","a","l","i","d"," ","k","e","y">> }
    \cup WifAlteredTails

\* Bodies given to validate_key
Bodies ==
    HexBodies \cup ExtendedBodies \cup WifBodies
    \cup { <<>>, KEY_HEX_02 \o <<"]">>, <<"[">> \o KEY_HEX_02, <<"0","2","\"">> }

\* Strings given to validate_key_origin
Origins ==
    { KEY_ORIGIN_A, <<"[","d","e","a","d","b","e","e","f","]">>, <<"[","d","e","a","d","b","e","f","/","0","h","/","1","h","/","2","]">>,
      <<"[","D","E","A","D","b","e","e","f","/","0","H","/","1","'","]">>, <<"[","g","a","a","a","a","a","a","a","]">>,
      <<"[","d","e","a","d","b","e","e","f","/","0","h","/","]">>, <<"[","d","e","a","d","b","e","e","f","/","/","0","]">>,
      <<"[","d","e","a","d","b","e","e","f","0","h","]">>, <<"[","d","e","a","d","b","e","e","f","/","0","f","]">>,
      <<"[","d","e","a","d","b","e","e","f","/","-","0","]">>, <<"[","d","e","a","d","b","e","e","f","/","*","]">>,
      <<"[","d","e","a","d","b","e","e","f","/","0","h","/","*","]">>, <<"[","d","e","a","d","b","e","e","f","/","0","/","*","h","]">>,
      <<"[","d","e","a","d","b","e","e","f","/","2","1","4","7","4","8","3","6","4","8","]">>,
      <<"[","d","e","a","d","b","e","e","e","f","/","0","]">>, <<"[","d","e","a","d","[","e","e","f","/","0","]">>,
      <<"[","d","e","a","d","b","e","e","f","/","0","]","]">>, <<"[","[","d","e","a","d","b","e","e","f","]">>,
      <<"[","d","e","a","d","b","e","e","f","/","0">>, <<"d","e","a","d","b","e","e","f","/","0","]">>,
      <<"[","]">>, <<"[">>, <<"]">>, <<>>,
      <<"[","a","U+00E9","U+00E9","U+00E9","U+00E9","/","0","]">>, <<"[","U+00E9","U+00E9","U+00E9","U+00E9","/","0","]">>,
      <<"[","d","e","a","d","b","e","e","U+00E9","/","0","]">> }

\* What stands before the body of a key expression: nothing, a key origin,
\* valid or not, an origin that is not closed, a stray bracket, two origins.
OriginParts ==
    { <<>>, KEY_ORIGIN_A, <<"[","d","e","a","d","b","e","e","f","]">>, <<"[","d","e","a","d","b","e","f","/","0","h","]">>,
      <<"[","g","a","a","a","a","a","a","a","]">>, <<"[","d","e","a","d","b","e","e","f","/","0","h","/","]">>,
      <<"[","d","e","a","d","b","e","e","f","/","0">>, <<"a","a","a","a","a","a","a","a","]">>,
      <<"[","a","a","a","a","a","a","a","a","]","[","a","a","a","a","a","a","a","a","]">>,
      <<"[","d","e","a","d","b","e","e","f","]","]">>, <<"[","d","e","a","d","b","e","e","U+00E9","]">> }

\* The bodies put behind every one of OriginParts
BodyParts ==
    { <<>>, KEY_HEX_02, HexKey(<<"0","3">>, 65), HexKey(<<"0","4">>, 130),
      KEY_XPUB_B \o <<"/","3","h","/","4","h","/","5","h","/","*","h">>, KEY_XPRV_A \o <<"/","1","a","a">>,
      KEY_XPUB_ZERO_DEPTH_PARENT, KEY_WIF_A, KEY_WIF_COMPRESSED_BAD_CHECKSUM,
      <<"i","n","v","a","l","i","d"," ","k","e","y">>, KEY_HEX_02 \o <<"]">>, <<"0","2","\"">>, <<"0","2","U+00E9">> }

\* Strings given to validate_key_expression
KeyExpressions ==
    { o \o b : o \in OriginParts, b \in BodyParts } \cup Bodies

\* Attributes given to validate_extended_key_attrs
Attrs ==
    [depth : 0..MaxDepth, parent_fingerprint : [1..4 -> {0, 1}],
     index : {0, 1, 2147483647}]

\* One call of one of the validators: origin names the function called.
InitKey ==
    /\ NoCli
    /\ \/ origin = "validate_key_expression" /\ input \in KeyExpressions
       \/ origin = "validate_key_origin" /\ input \in Origins
       \/ origin = "validate_key" /\ input \in Bodies
       \/ origin = "validate_wif_private_key" /\ input \in WifBodies
       \/ origin = "validate_extended_key_attrs" /\ input \in Attrs
    /\ config = DefaultConfig
    /\ result = NoResult
    /\ pc = "call"
    /\ s = <<>>
    /\ created = <<>>
    /\ checked = FALSE
    /\ epc = "idle"

\* The function called returned r.
KeyReturns(r) ==
    /\ result' = r
    /\ pc' = "returned"
    /\ UNCHANGED <<input, config, origin, s, created, checked, epc>>
    /\ UNCHANGED cli

KeyExpressionCall ==
    /\ pc = "call"
    /\ origin = "validate_key_expression"
    /\ KeyReturns(validate_key_expression(input))

KeyOriginCall ==
    /\ pc = "call"
    /\ origin = "validate_key_origin"
    /\ KeyReturns(validate_key_origin(input))

KeyCall ==
    /\ pc = "call"
    /\ origin = "validate_key"
    /\ KeyReturns(validate_key(input))

WifCall ==
    /\ pc = "call"
    /\ origin = "validate_wif_private_key"
    /\ KeyReturns(validate_wif_private_key(input))

AttrsCall ==
    /\ pc = "call"
    /\ origin = "validate_extended_key_attrs"
    /\ KeyReturns(validate_extended_key_attrs(input))

NextKey == KeyExpressionCall \/ KeyOriginCall \/ KeyCall \/ WifCall \/ AttrsCall

SpecKey == InitKey /\ [][NextKey]_vars

-----------------------------------------------------------------------------
(* The hexadecimal helpers called on their own                             *)

MaxHexLen == 4      \* longest string given to decode_hex and assert_hexadecimal_format

\* Hexadecimal digits of both cases, a letter that is none, the signs, a
\* space, a tab, a newline and a character of two bytes
HexAlphabet == {"0", "a", "F", "g", "+", "-", SPACE, "\t", "\n", "U+00E9"}

\* subcommands/derive_key.rs tests: the seed of test_simple_seed
SEED == <<"0","0","0","1","0","2","0","3","0","4","0","5","0","6","0","7",
          "0","8","0","9","0","a","0","b","0","c","0","d","0","e","0","f">>

HexInputs == UNION { [1..n -> HexAlphabet] : n \in 0..MaxHexLen } \cup { SEED }

Labels == {"raw function argument", "seed"}

\* One call of decode_hex(input) or of assert_hexadecimal_format(input,
\* config.label): origin names the function called.
InitHex ==
    /\ NoCli
    /\ input \in HexInputs
    /\ \/ origin = "decode_hex" /\ config = [label |-> ""]
       \/ origin = "assert_hexadecimal_format" /\ config \in [label : Labels]
    /\ result = NoResult
    /\ pc = "call"
    /\ s = <<>>
    /\ created = <<>>
    /\ checked = FALSE
    /\ epc = "idle"

DecodeHexCall ==
    /\ pc = "call"
    /\ origin = "decode_hex"
    /\ KeyReturns(decode_hex(input))

AssertHexCall ==
    /\ pc = "call"
    /\ origin = "assert_hexadecimal_format"
    /\ KeyReturns(assert_hexadecimal_format(input, config.label))

NextHex == DecodeHexCall \/ AssertHexCall

SpecHex == InitHex /\ [][NextHex]_vars

-----------------------------------------------------------------------------
(* Properties of the key validators (SpecKey)                              *)

\* C12: when validate_key_expression(input) succeeds, the string it returns
\* is input.
ReturnsInput ==
    (Returned /\ origin = "validate_key_expression" /\ result.kind = "Ok") =>
        result = Ok(input)

\* A key expression with a key origin and a derivation suffix was returned
\* as given.
ReturnsInputWitness ==
    /\ Returned
    /\ origin = "validate_key_expression"
    /\ input = KEY_ORIGIN_A \o KEY_XPUB_B \o <<"/","3","h","/","4","h","/","5","h","/","*","h">>
    /\ result = Ok(input)

\* The text between the brackets of a bracketed string
Bracketed(str) == Len(str) >= 2 /\ str[1] = "[" /\ str[Len(str)] = "]"
Inside(str) == SubSeq(str, 2, Len(str) - 1)

\* A path segment: decimal digits, with an optional hardened marker
PathSegment(seg) ==
    AllDigits(IF Len(seg) > 0 /\ seg[Len(seg)] \in {"h", "H", "'"}
              THEN SubSeq(seg, 1, Len(seg) - 1) ELSE seg)

OriginOf(str) ==
    IF StartsWith(str, <<"[">>) THEN SubSeq(str, 1, FirstIndex(str, "]")) ELSE <<>>
BodyOf(str) == SubSeq(str, Len(OriginOf(str)) + 1, Len(str))

\* C15: validate_key_expression reports the first check that fails: empty
\* input, a character outside the alphabet, a missing ], the key origin, the
\* body; the body stage rejects an empty body and a body with a bracket, so
\* [deadbeef] fails at the body stage and an input with two origins or a
\* stray ] is rejected.
KeyExpressionOrder ==
    (Returned /\ origin = "validate_key_expression") =>
        /\ IF Len(input) = 0 THEN result = Err("Input is empty")
           ELSE IF \E i \in 1..Len(input) : ~Contains(ALLOWED_CHAR_SET, input[i])
           THEN result = Err("Input contains invalid characters")
           ELSE IF StartsWith(input, <<"[">>) /\ ~Contains(input, "]")
           THEN result = Err("Missing closing bracket")
           ELSE IF StartsWith(input, <<"[">>) /\ validate_key_origin(OriginOf(input)).kind # "Ok"
           THEN result = validate_key_origin(OriginOf(input))
           ELSE IF BodyOf(input) = <<>> THEN result = Err("Key is empty")
           ELSE IF Contains(BodyOf(input), "[") \/ Contains(BodyOf(input), "]")
           THEN result = Err("Key can not include key origin")
           ELSE result = OkOr(validate_key(BodyOf(input)), input)
        /\ input = <<"[","d","e","a","d","b","e","e","f","]">> =>
              /\ validate_key_origin(input).kind = "Ok"
              /\ result = Err("Key is empty")
        /\ (\/ Cardinality(Positions(input, "[")) > 1
            \/ Cardinality(Positions(input, "]")) > 1
            \/ Contains(input, "]") /\ ~StartsWith(input, <<"[">>)) =>
              result.kind = "Err"

\* An invalid key origin before an invalid body gave the error of the
\* origin, and not the one of the body.
KeyExpressionOrderWitness ==
    /\ Returned
    /\ origin = "validate_key_expression"
    /\ input = <<"[","g","a","a","a","a","a","a","a","]">> \o <<"i","n","v","a","l","i","d"," ","k","e","y">>
    /\ result = Err("Fingerprint is not valid hex")

\* C16: a body that starts with 02, 03 or 04 is accepted exactly when all
\* its characters are hexadecimal digits and it has 130 characters behind 04
\* and 66 behind 02 or 03; every other such body is an error.
HexKeyLengths ==
    (Returned /\ origin = "validate_key" /\ has_hex_encoded_public_key_prefix(input)) =>
        /\ result.kind \in {"Ok", "Err"}
        /\ result.kind = "Ok" <=>
              /\ \A i \in 1..Len(input) : is_ascii_hexdigit(input[i])
              /\ Len(input) = IF StartsWith(input, <<"0","4">>) THEN 130 ELSE 66

\* A body of 130 hexadecimal digits behind 04 was accepted.
HexKeyLengthsWitness ==
    /\ Returned
    /\ origin = "validate_key"
    /\ input = HexKey(<<"0","4">>, 130)
    /\ result = Ok(<<>>)

\* The extended key of a body: the text before its first /
KeyOf(body) ==
    IF Contains(body, "/") THEN SubSeq(body, 1, FirstIndex(body, "/") - 1) ELSE body

ZeroDepthErrors ==
    { Err("Invalid key: the key cannot have zero depth with non-zero parent fingerprint"),
      Err("Invalid key: the key cannot have zero depth with non-zero index") }

\* The attributes are those of a key of depth 0 that has a parent or an index
ZeroDepthFault(attrs) ==
    /\ attrs.depth = 0
    /\ \/ attrs.parent_fingerprint # <<0, 0, 0, 0>>
       \/ attrs.index # 0

\* C17 as stated: an extended-key body whose parsed key has depth 0 and a
\* parent fingerprint or a child index that is not zero always fails with
\* the zero-depth error.
ZeroDepthAlways ==
    (Returned /\ origin = "validate_key" /\ InExtendedKeyTable(KeyOf(input))) =>
        (ZeroDepthFault(ExtendedKeyEntry(KeyOf(input))) => result \in ZeroDepthErrors)

\* C17, amended: validate_extended_key_attrs fails with the zero-depth error
\* exactly on attributes of depth 0 with a non-zero parent fingerprint or
\* index, and accepts all others; an extended-key body fails with it exactly
\* when its key is such a key and its derivation suffix is valid (an invalid
\* suffix is reported first, with its own error).
ZeroDepthAfterPath ==
    /\ (Returned /\ origin = "validate_extended_key_attrs") =>
          IF ZeroDepthFault(input) THEN result \in ZeroDepthErrors ELSE result = Ok(<<>>)
    /\ (Returned /\ origin = "validate_key" /\ InExtendedKeyTable(KeyOf(input))) =>
          IF validate_extended_key(input).kind # "Ok"
          THEN result = validate_extended_key(input) /\ result \notin ZeroDepthErrors
          ELSE IF ZeroDepthFault(ExtendedKeyEntry(KeyOf(input)))
          THEN result \in ZeroDepthErrors
          ELSE result = Ok(<<>>)

\* A key of depth 0 with a child index, followed by a valid suffix, failed
\* with the zero-depth error.
ZeroDepthAfterPathWitness ==
    /\ Returned
    /\ origin = "validate_key"
    /\ input = KEY_XPRV_ZERO_DEPTH_INDEX \o <<"/","3","/","4","/","5">>
    /\ result = Err("Invalid key: the key cannot have zero depth with non-zero index")

\* C18: a WIF body is accepted exactly when it decodes to 37 or 38 bytes
\* whose first is 0x80 and whose last 4 are the first 4 of the double SHA-256
\* of the others; the decoding, the length and the first byte are checked
\* in this order before the checksum, each with its own error, so a valid WIF
\* with an altered checksum tail gives the checksum error.
WifOrder ==
    (Returned /\ origin = "validate_wif_private_key") =>
        LET d == bs58_decode(input)
            n == Len(d.bytes)
        IN /\ IF ~d.ok THEN result = Err("Could not convert WIF from base58")
              ELSE IF n \notin {37, 38} THEN result = Err("Invalid WIF format")
              ELSE IF d.bytes[1] # 128 THEN result = Err("WIF must start with 0x80")
              ELSE IF SubSeq(d.bytes, n - 3, n) # Sha256d(SubSeq(d.bytes, 1, n - 4))
              THEN result = Err("WIF checksum does not match")
              ELSE result = Ok(<<>>)
           /\ (\E w \in {KEY_WIF_A, KEY_WIF_COMPRESSED} :
                  /\ input # w
                  /\ n = Len(bs58_decode(w).bytes)
                  /\ SubSeq(d.bytes, 1, n - 4) = SubSeq(bs58_decode(w).bytes, 1, n - 4)) =>
                 result = Err("WIF checksum does not match")
           /\ input \in {KEY_WIF_A, KEY_WIF_B, KEY_WIF_COMPRESSED} => result = Ok(<<>>)

\* KEY_WIF_A with a byte of its checksum altered gave the checksum error.
WifOrderWitness ==
    /\ Returned
    /\ origin = "validate_wif_private_key"
    /\ input \in WifAlteredTails
    /\ result = Err("WIF checksum does not match")

\* The key of an extended-key body, up to its first "/", and what follows it.
KeyPart(body) ==
    IF Contains(body, "/") THEN SubSeq(body, 1, FirstIndex(body, "/") - 1) ELSE body

SuffixOf(body) == SubSeq(body, Len(KeyPart(body)) + 1, Len(body))

\* The segments of a suffix that is not empty: what stands between its "/".
SuffixSegments(body) == Split(SubSeq(SuffixOf(body), 2, Len(SuffixOf(body))), "/")

IsWildcard(seg) == seg \in { <<"*">>, <<"*","h">> }

\* The value of a string of decimal digits
RECURSIVE Decimal(_)
Decimal(d) ==
    IF d = <<>> THEN 0
    ELSE 10 * Decimal(SubSeq(d, 1, Len(d) - 1))
         + (CHOOSE v \in 0..9 : DecDigits[v + 1] = d[Len(d)])

\* The digits without the zeros in front of them
RECURSIVE NoLeadingZeros(_)
NoLeadingZeros(d) ==
    IF d # <<>> /\ d[1] = "0" THEN NoLeadingZeros(SubSeq(d, 2, Len(d))) ELSE d

\* The digits, none of them a zero in front, are a value of at most 2^31 - 1.
BelowTwoTo31(d) ==
    \/ Len(d) <= 9
    \/ /\ Len(d) = 10
       /\ LET high == Decimal(SubSeq(d, 1, 9))
              low  == Decimal(SubSeq(d, 10, 10))
          IN high < 214748364 \/ (high = 214748364 /\ low <= 7)

\* A child index: decimal digits of a value below 2^31, with or without a
\* hardened marker behind them.
IsIndex(seg) ==
    LET d == IF seg # <<>> /\ seg[Len(seg)] \in {"h", "H", "'"}
             THEN SubSeq(seg, 1, Len(seg) - 1) ELSE seg
    IN /\ d # <<>>
       /\ \A i \in 1..Len(d) : \E v \in 0..9 : DecDigits[v + 1] = d[i]
       /\ BelowTwoTo31(NoLeadingZeros(d))

\* Every segment is an index, but the last one, which may be a wildcard.
WellFormedSuffix(body) ==
    \/ SuffixOf(body) = <<>>
    \/ LET segs == SuffixSegments(body) IN
       /\ \A k \in 1..(Len(segs) - 1) : IsIndex(segs[k])
       /\ IsIndex(segs[Len(segs)]) \/ IsWildcard(segs[Len(segs)])

-----------------------------------------------------------------------------
(* Properties of the hexadecimal helpers (SpecHex)                         *)

\* C19: decode_hex(s) returns the bytes of the 2-character groups of s when
\* every group is two hexadecimal digits, and an error when s has an odd
\* length or a group that is not two hexadecimal digits.
DecodeHexGroups ==
    (Returned /\ origin = "decode_hex") =>
        IF Len(input) % 2 = 0 /\ \A i \in 1..Len(input) : is_ascii_hexdigit(input[i])
        THEN result = Ok([k \in 1..(Len(input) \div 2) |->
                            16 * to_digit_16(input[2 * k - 1]) + to_digit_16(input[2 * k])])
        ELSE result.kind = "Err"

\* C20: assert_hexadecimal_format(input, label) returns input when input
\* without its spaces (tabs and newlines stay) is not empty, of even length
\* and all hexadecimal digits, and else fails with the error that quotes
\* the label and the input as given.
HexFormat ==
    (Returned /\ origin = "assert_hexadecimal_format") =>
        IF /\ \A i \in 1..Len(input) : input[i] = SPACE \/ is_ascii_hexdigit(input[i])
           /\ Cardinality({i \in 1..Len(input) : input[i] # SPACE}) % 2 = 0
           /\ \E i \in 1..Len(input) : input[i] # SPACE
        THEN result = Ok(input)
        ELSE result = ErrFmt("{label} '{}' is not a valid hexadecimal string!",
                             config.label, input)

\* Two digits with a space between them and one behind were returned as
\* given.
HexFormatWitness ==
    /\ Returned
    /\ origin = "assert_hexadecimal_format"
    /\ input = <<"a", SPACE, "F", SPACE>>
    /\ result = Ok(input)

-----------------------------------------------------------------------------
(* lib.rs, main.rs: the command line (SpecCli)                             *)

\* pub const SUCCESS: i32 = 0;
SUCCESS == 0

\* pub const FAILURE: i32 = 1;
FAILURE == 1

\* The exit code of a run that panicked: 101 when the panic unwinds, 134
\* when the build aborts on panic.
PanicCodes == {101, 134}

\* subcommands/derive_key.rs tests: the extended private key of SEED
KEY_XPRV_SEED ==
    <<"x","p","r","v","9","s","2","1","Z","r","Q","H","1","4","3","K","3","Q","T","D","L","4",
      "L","X","w","2","F","7","H","E","K","3","w","J","U","D","2","n","W","2","n","R","k","4",
      "s","t","b","P","y","6","c","q","3","j","P","P","q","j","i","C","h","k","V","v","v","N",
      "K","m","P","G","J","x","W","U","t","g","6","L","n","F","5","k","e","j","M","R","N","N",
      "U","3","T","G","t","R","B","e","J","g","k","3","3","y","u","G","B","x","r","M","P","H",
      "i">>

\* bip32: XPrv::derive_from_path(seed, path) and the two to_string calls, for
\* the empty path.  The keys of the test seed are the ones of the tests; a
\* seed of another length than 16, 32 or 64 bytes is refused.
XPrv_derive_from_path(seed) ==
    IF seed = [k \in 1..16 |-> k - 1]
    THEN Ok(KEY_XPUB_A \o <<":">> \o KEY_XPRV_SEED)
    ELSE Err("seed length invalid")

\* str::split([' ', '\t'])
SplitSpaceTab(str) ==
    Split([k \in 1..Len(str) |-> IF str[k] = "\t" THEN SPACE ELSE str[k]], SPACE)

\* The map and collect::<Result<String, ParsingError>> of derive_key: the
\* first slice with an odd number of characters is the error, else the
\* slices are joined.
RECURSIVE SeedNoWhitespace(_, _, _)
SeedNoWhitespace(slices, k, joined) ==
    IF k > Len(slices) THEN Ok(joined)
    ELSE IF Len(slices[k]) % 2 # 0
    THEN ErrFmt("The provided seed '{}' doesn't have even length and thus cannot be complete valid hexadecimal number representation",
                "", slices[k])
    ELSE SeedNoWhitespace(slices, k + 1, joined \o slices[k])

\* derive_key(input, config), the arm of a seed (the input starts with
\* neither xprv nor xpub) with the empty path.
DeriveKeySeed(seed_input) ==
    LET seed_no_whitespace == SeedNoWhitespace(SplitSpaceTab(seed_input), 1, <<>>) IN
    IF seed_no_whitespace.kind # "Ok" THEN seed_no_whitespace
    ELSE IF decode_hex(seed_no_whitespace.val).kind # "Ok"
    THEN decode_hex(seed_no_whitespace.val)
    ELSE XPrv_derive_from_path(decode_hex(seed_no_whitespace.val).val)

\* The most inputs on a command line
MaxInputs == 3

\* Inputs of key-expression: two valid keys, a key too short, a key that
\* is no key.
KeyExpressionInputs ==
    { KEY_XPUB_A, KEY_HEX_02, <<"0", "2">>, <<"x", "p", "u", "b">> }

\* Inputs of script-expression: two valid scripts, a raw script that is
\* not hexadecimal, and a multi script whose last key ends in a character
\* of two bytes.
ScriptExpressionInputs ==
    { <<"r","a","w","(","d","e","a","d","b","e","e","f",")">>,
      <<"p","k","(">> \o KEY_HEX_02 \o <<")">>,
      <<"r","a","w","(","x","y","z",")">>,
      <<"m","u","l","t","i","(","1",",","0","2","U+00E9",")">> }

\* Inputs of derive-key: the seed of the tests, the seed xx of the tests, a
\* seed with a slice of odd length, and a seed of two characters and three
\* bytes.
DeriveKeyInputs ==
    { SEED, <<"x", "x">>, <<"0", "0", SPACE, "0">>, <<"a", "U+00E9">> }

\* parse_args returned a command and its inputs; nothing was printed yet.
InitCli ==
    /\ \/ /\ command = "key-expression"
          /\ config = <<>>
          /\ inputs \in UNION { [1..n -> KeyExpressionInputs] : n \in 0..MaxInputs }
       \/ /\ command = "script-expression"
          /\ config \in Configs
          /\ inputs \in UNION { [1..n -> ScriptExpressionInputs] : n \in 0..MaxInputs }
       \/ /\ command = "derive-key"
          /\ config = [path |-> <<>>]
          /\ inputs \in UNION { [1..n -> DeriveKeyInputs] : n \in 0..MaxInputs }
    /\ position = 0
    /\ stdout = <<>>
    /\ stderr = <<>>
    /\ status = "running"
    /\ code = 0
    /\ stack = <<>>
    /\ input = <<>>
    /\ result = NoResult
    /\ pc = "call"
    /\ origin = "run_cli"
    /\ s = <<>>
    /\ created = <<>>
    /\ checked = FALSE
    /\ epc = "idle"

\* One turn of a for loop of run_cli: the subcommand returned r for the next
\* input.  Ok is printed to standard output; Err is printed to standard
\* error and the process exits with FAILURE; a panic prints its message to
\* standard error and ends the process.
Turn(r) ==
    /\ input' = inputs[position + 1]
    /\ result' = r
    /\ position' = position + 1
    /\ stdout' = IF r.kind = "Ok" THEN Append(stdout, r) ELSE stdout
    /\ stderr' = IF r.kind = "Ok" THEN stderr ELSE Append(stderr, r)
    /\ status' = IF r.kind = "Ok" THEN "running"
                 ELSE IF r.kind = "Err" THEN "exited" ELSE "panicked"
    /\ IF r.kind = "Ok" THEN code' = code
       ELSE IF r.kind = "Err" THEN code' = FAILURE
       ELSE code' \in PanicCodes
    /\ UNCHANGED <<command, inputs, config, pc, origin, s, created, checked, epc, stack>>

\* Command::KeyExpression(config) => for input in inputs
KeyExpressionTurn ==
    /\ status = "running"
    /\ command = "key-expression"
    /\ position < Len(inputs)
    /\ Turn(validate_key_expression(inputs[position + 1]))

\* Command::ScriptExpression(config) => for input in inputs
ScriptExpressionTurn ==
    /\ status = "running"
    /\ command = "script-expression"
    /\ position < Len(inputs)
    /\ Turn(script_expression(inputs[position + 1], config).res)

\* Command::DeriveKey(config) => for input in inputs
DeriveKeyTurn ==
    /\ status = "running"
    /\ command = "derive-key"
    /\ position < Len(inputs)
    /\ Turn(DeriveKeySeed(inputs[position + 1]))

\* The loop is over: std::process::exit(SUCCESS)
ExitSuccess ==
    /\ status = "running"
    /\ position = Len(inputs)
    /\ status' = "exited"
    /\ code' = SUCCESS
    /\ UNCHANGED <<command, inputs, position, stdout, stderr, stack>>
    /\ UNCHANGED <<input, config, result, pc, origin, s, created, checked, epc>>

NextCli == KeyExpressionTurn \/ ScriptExpressionTurn \/ DeriveKeyTurn \/ ExitSuccess

SpecCli == InitCli /\ [][NextCli]_vars

-----------------------------------------------------------------------------
(* Properties of the command line (SpecCli)                                *)

\* What the subcommand of the command line returns for the k-th input
ResultOf(k) ==
    IF command = "key-expression" THEN validate_key_expression(inputs[k])
    ELSE IF command = "script-expression" THEN script_expression(inputs[k], config).res
    ELSE DeriveKeySeed(inputs[k])

\* The results of the first n inputs, in input order
ResultsOf(n) == [k \in 1..n |-> ResultOf(k)] \o <<>>

\* The place of the first of the results rs that is not Ok, Len(rs) + 1
\* when every one is.
FirstFailing(rs) ==
    IF \E k \in 1..Len(rs) : rs[k].kind # "Ok"
    THEN CHOOSE k \in 1..Len(rs) :
            rs[k].kind # "Ok" /\ \A j \in 1..(k - 1) : rs[j].kind = "Ok"
    ELSE Len(rs) + 1

\* ReportsUntilFirstFailure for the results rs of the inputs, the first
\* failing one at place f.
Reports(rs, f) ==
    /\ position <= Len(inputs)
    /\ position <= f
    /\ status = "running" =>
          /\ position < f
          /\ stdout = SubSeq(rs, 1, position)
          /\ stderr = <<>>
    /\ (status # "running" /\ f <= Len(inputs)) =>
          /\ position = f
          /\ stdout = SubSeq(rs, 1, f - 1)
          /\ stderr = <<rs[f]>>
          /\ rs[f].kind = "Err"
          /\ status = "exited"
          /\ code = FAILURE
    /\ (status # "running" /\ f > Len(inputs)) =>
          /\ position = Len(inputs)
          /\ stdout = rs
          /\ stderr = <<>>
          /\ status = "exited"
          /\ code = SUCCESS

\* C13: the results the command line has printed are the results of the
\* inputs it has taken that precede the first failing input, in input
\* order; nothing is printed to standard error while the run goes on; the
\* run ends at the first failing input with the results of all inputs before
\* it printed, that input's error on standard error and the exit code
\* FAILURE, and without a failing input it ends after the last input with
\* the exit code SUCCESS; no input after the first failing one is taken.
ReportsUntilFirstFailure ==
    command # "none" =>
        Reports(ResultsOf(Len(inputs)), FirstFailing(ResultsOf(Len(inputs))))

-----------------------------------------------------------------------------
(* The two alphabets: key_expression.rs and checksum.rs (SpecAlphabet)     *)

\* Characters outside both ALLOWED_CHAR_SET and INPUT_CHARSET
OutsideChars == {"\t", "\n", "U+00E9", "U+00A0"}

\* Every character of either alphabet, and the characters outside them
AlphabetChars ==
    {INPUT_CHARSET[i] : i \in 1..Len(INPUT_CHARSET)}
    \cup {ALLOWED_CHAR_SET[i] : i \in 1..Len(ALLOWED_CHAR_SET)}
    \cup OutsideChars

\* One character is given to validate_key_expression and, as a script, to
\* checksum_expand.
InitAlphabet ==
    /\ NoCli
    /\ \E c \in AlphabetChars : input = <<c>>
    /\ s = input
    /\ config = DefaultConfig
    /\ result = NoResult
    /\ pc = "call"
    /\ origin = "validate_key_expression"
    /\ created = <<>>
    /\ checked = FALSE
    /\ epc = "start"

\* validate_key_expression(input)
AlphabetKeyCall ==
    /\ pc = "call"
    /\ result' = validate_key_expression(input)
    /\ pc' = "returned"
    /\ UNCHANGED <<input, config, origin, s, created, checked, epc>>
    /\ UNCHANGED cli

\* checksum_expand(s): created takes the symbols it returned.
ExpandCall ==
    /\ epc = "start"
    /\ created' = checksum_expand(s).symbols
    /\ epc' = IF checksum_expand(s).panic THEN "aborted" ELSE "expanded"
    /\ UNCHANGED <<input, config, origin, s, checked, result, pc>>
    /\ UNCHANGED cli

NextAlphabet == AlphabetKeyCall \/ ExpandCall

SpecAlphabet == InitAlphabet /\ [][NextAlphabet]_vars

-----------------------------------------------------------------------------
(* Properties of the two alphabets (SpecAlphabet)                          *)

\* Both functions were called on the character.
BothCalled == pc = "returned" /\ epc \in {"expanded", "aborted"}

\* The character passed the alphabet check of validate_key_expression.
PassedKeyAlphabet == result # Err("Input contains invalid characters")

\* The index the engine has for the one character of s, from the symbols
\* of checksum_expand: index & 31 and, as the group left over, index >> 5.
EngineIndex == created[1] + 32 * created[2]

\* C21 as stated: a character passes the alphabet check of
\* validate_key_expression exactly when the checksum engine has an index for
\* it, and every such index lies in 0..92.
OneAlphabet ==
    BothCalled =>
        /\ PassedKeyAlphabet <=> epc = "expanded"
        /\ epc = "expanded" => EngineIndex \in 0..92

\* C21: every character that passes the alphabet check of
\* validate_key_expression has an index in the checksum engine; the engine
\* has an index for two characters more, the double quote (92) and the
\* backslash (93); every index lies in 0..94, and the space has 94.
KeyAlphabetWithinEngine ==
    BothCalled =>
        /\ PassedKeyAlphabet => epc = "expanded"
        /\ (epc = "expanded" /\ ~PassedKeyAlphabet) <=> s \in {<<"\"">>, <<"\\">>}
        /\ epc = "expanded" => EngineIndex \in 0..94
        /\ s = <<"\"">> => EngineIndex = 92
        /\ s = <<"\\">> => EngineIndex = 93
        /\ s = <<SPACE>> => EngineIndex = 94

\* The space passed the alphabet check of validate_key_expression and has
\* the index 94 in the engine.
KeyAlphabetWithinEngineWitness ==
    /\ BothCalled
    /\ s = <<SPACE>>
    /\ PassedKeyAlphabet
    /\ epc = "expanded"
    /\ created = <<30, 2>>

-----------------------------------------------------------------------------
(* script_expression run call by call (SpecStack)                          *)

\* The deepest nesting of scripts in the inputs
MaxNest == 3

\* The keywords of the five arms, and a word that is none of them
Keywords ==
    { <<"r","a","w">>, <<"m","u","l","t","i">>, <<"p","k","h">>, <<"p","k">>,
      <<"s","h">>, <<"x","x">> }

\* What stands inside the innermost parentheses: a key (the keys are not
\* looked at here, so a short one), a count and a key, nothing, and a key
\* that ends in a character of two bytes.
Atoms == { <<"0","2">>, <<"1",",","0","2">>, <<>>, <<"0","U+00E9">> }

\* Scripts nested n deep
RECURSIVE Nested(_)
Nested(n) ==
    IF n = 0 THEN Atoms
    ELSE { Expr(kw, a, 0) : kw \in Keywords, a \in Nested(n - 1) }

\* Scripts nested up to MaxNest deep; the scripts nested twice also with
\* spaces around the tokens of the outer script, with a keyword glued in front
\* of the argument, without the closing parenthesis, and with a checksum.
StackInputs ==
    UNION { Nested(n) : n \in 1..MaxNest }
    \cup { Expr(kw, a, 1) : kw \in Keywords, a \in Nested(1) }
    \cup { Expr(<<"s","h">>, kw \o a, 0) : kw \in Keywords, a \in Nested(2) }
    \cup { SubSeq(a, 1, Len(a) - 1) : a \in Nested(2) }
    \cup { a \o <<"#">> \o SubSeq(TailSource, 1, CHECKSUM_LENGTH) : a \in Nested(2) }

\* The call script_expression(inp, _) as it starts: the arm its match takes
\* on the trimmed script part of inp; called tells whether the sh arm has
\* made its call.
Frame(inp) ==
    [script |-> inp,
     arm    |-> ArmOf(trimify_chars(divide_script_and_checksum(inp).script)),
     called |-> FALSE]

\* rest.extract_args("sh") of the call f
ShArgsOf(f) ==
    extract_args(SubSeq(trimify_chars(divide_script_and_checksum(f.script).script), 3,
                        Len(trimify_chars(divide_script_and_checksum(f.script).script))),
                 "sh")

\* The call f has a call of script_expression to make: it is in the sh arm,
\* with one argument the guard accepts, and has not made the call yet.
HasCallToMake(f) == f.arm = "sh" /\ ~f.called /\ ShRecurses(ShArgsOf(f))

InitStack ==
    /\ input \in StackInputs
    /\ config = DefaultConfig
    /\ result = NoResult
    /\ pc = "call"
    /\ origin = "fresh"
    /\ s = <<>>
    /\ created = <<>>
    /\ checked = FALSE
    /\ epc = "idle"
    /\ command = "none"
    /\ inputs = <<>>
    /\ position = 0
    /\ stdout = <<>>
    /\ stderr = <<>>
    /\ status = "none"
    /\ code = 0
    /\ stack = <<>>

\* script_expression(input, config) is called.
Enter ==
    /\ pc = "call"
    /\ stack = <<>>
    /\ stack' = <<Frame(input)>>
    /\ pc' = "running"
    /\ UNCHANGED <<input, config, result, origin, s, created, checked, epc>>
    /\ UNCHANGED <<command, inputs, position, stdout, stderr, status, code>>

\* The sh arm of the innermost call calls
\* script_expression(&arg.clone(), &ScriptExpressionConfig::default()).
Descend ==
    /\ pc = "running"
    /\ HasCallToMake(stack[Len(stack)])
    /\ stack' = [stack EXCEPT ![Len(stack)].called = TRUE]
                \o <<Frame(ShArgsOf(stack[Len(stack)]).args[1])>>
    /\ UNCHANGED <<input, config, result, pc, origin, s, created, checked, epc>>
    /\ UNCHANGED <<command, inputs, position, stdout, stderr, status, code>>

\* The innermost call has no call of script_expression to make (any more):
\* it runs to its end and returns to its caller.
Leave ==
    /\ pc = "running"
    /\ ~HasCallToMake(stack[Len(stack)])
    /\ stack' = SubSeq(stack, 1, Len(stack) - 1)
    /\ pc' = IF Len(stack) = 1 THEN "returned" ELSE "running"
    /\ UNCHANGED <<input, config, result, origin, s, created, checked, epc>>
    /\ UNCHANGED <<command, inputs, position, stdout, stderr, status, code>>

NextStack == Enter \/ Descend \/ Leave

\* A call that was made runs on: nothing suspends script_expression.
SpecStack == InitStack /\ [][NextStack]_vars /\ WF_vars(NextStack)

-----------------------------------------------------------------------------
(* Properties of the calls of script_expression (SpecStack)                *)

\* At most two calls are running, the inner one made by the sh arm of the
\* outer one and itself in the pk, pkh or multi arm.
DepthAtMostTwo ==
    /\ Len(stack) <= 2
    /\ Len(stack) = 2 =>
          /\ stack[1].arm = "sh"
          /\ stack[2].arm \in {"pk", "pkh", "multi"}

\* What a call not yet returned has left to do: a call that has made its
\* nested call only has to return; another one may have its script to go
\* through, and a nested call to make on a part of it.
FrameRank(f) == IF f.called THEN 1 ELSE 2 + 2 * Len(f.script)

RECURSIVE StackRank(_, _)
StackRank(frames, k) ==
    IF k > Len(frames) THEN 0 ELSE FrameRank(frames[k]) + StackRank(frames, k + 1)

\* The variant of the run: a natural number that is 0 once the call has
\* returned.
Rank ==
    IF pc = "call" THEN 3 + 2 * Len(input)
    ELSE IF pc = "returned" THEN 0
    ELSE StackRank(stack, 1)

\* The guard of Enter holds, or the guard that Descend and Leave share (the
\* one or the other then takes the innermost call on).
CanStep ==
    \/ pc = "call" /\ stack = <<>>
    \/ pc = "running" /\ Len(stack) >= 1

\* C22: every call of script_expression returns (or aborts), and the depth
\* of its recursion is at most 2: the only call it makes to itself is the
\* one for the argument of sh, and that call takes the pk, pkh or multi arm,
\* never the sh arm.  (A call that has not returned can take a step, and
\* every step lowers the variant Rank, so the call returns.)
BoundedRecursion ==
    /\ [](DepthAtMostTwo)
    /\ [](pc # "returned" => CanStep)
    /\ [][Rank' < Rank /\ Rank' >= 0]_vars

\* The call on sh(pk(KEY)) has made its nested call, which is in the pk arm.
BoundedRecursionWitness ==
    /\ pc = "running"
    /\ input = <<"s","h","(","p","k","(","0","2",")",")">>
    /\ Len(stack) = 2
    /\ stack[1].called
    /\ stack[2].arm = "pk"

-----------------------------------------------------------------------------
(* extract_args called on its own (SpecArgs)                               *)

MaxArgLen == 6      \* longest text given to extract_args

\* Parentheses, the comma, the space and a letter
ArgAlphabet == {"(", ")", ",", SPACE, "a"}

ArgInputs == UNION { [1..n -> ArgAlphabet] : n \in 0..MaxArgLen }

\* One call of input.extract_args(config.label)
InitArgs ==
    /\ NoCli
    /\ input \in ArgInputs
    /\ config \in [label : {"sh", "multi"}]
    /\ result = NoResult
    /\ pc = "call"
    /\ origin = "extract_args"
    /\ s = <<>>
    /\ created = <<>>
    /\ checked = FALSE
    /\ epc = "idle"

\* The call returns: an Ok holds the Vec of the arguments.
ExtractArgsCall ==
    /\ pc = "call"
    /\ LET a == extract_args(input, config.label) IN
       result' = IF a.res.kind = "Ok" THEN Ok(a.args) ELSE a.res
    /\ pc' = "returned"
    /\ UNCHANGED <<input, config, origin, s, created, checked, epc>>
    /\ UNCHANGED cli

NextArgs == ExtractArgsCall

SpecArgs == InitArgs /\ [][NextArgs]_vars

-----------------------------------------------------------------------------
(* Properties of extract_args (SpecArgs)                                   *)

\* How many times c stands in str
Count(str, c) == Cardinality({ i \in 1..Len(str) : str[i] = c })

\* Every ")" of str closes a "(" before it, and every "(" is closed.
Balanced(str) ==
    /\ Count(str, "(") = Count(str, ")")
    /\ \A i \in 1..Len(str) :
          Count(SubSeq(str, 1, i), ")") <= Count(SubSeq(str, 1, i), "(")

\* The commas of str that stand inside no parentheses
TopLevelCommas(str) ==
    { i \in 1..Len(str) :
        /\ str[i] = ","
        /\ Count(SubSeq(str, 1, i), "(") = Count(SubSeq(str, 1, i), ")") }

\* str cut at its top-level commas, every piece trimmed of spaces
TopLevelPieces(str) ==
    LET P     == TopLevelCommas(str)
        n     == Cardinality(P)
        At(k) == IF k = 0 THEN 0
                 ELSE IF k = n + 1 THEN Len(str) + 1
                 ELSE CHOOSE i \in P : Cardinality({j \in P : j <= i}) = k
    IN [k \in 1..(n + 1) |-> trimify_chars(SubSeq(str, At(k - 1) + 1, At(k) - 1))]

\* The text between the outer parentheses of the trimmed input
Interior == SubSeq(trimify_chars(input), 2, Len(trimify_chars(input)) - 1)

Enclosed ==
    LET t == trimify_chars(input) IN
    Len(t) >= 2 /\ t[1] = "(" /\ t[Len(t)] = ")"

\* C26: extract_args fails with the extraction error of its label unless
\* the trimmed text starts with "(" and ends with ")"; for an interior with
\* balanced parentheses it returns the interior cut at the commas that stand
\* inside no parentheses, every piece trimmed of spaces (an interior that is
\* one call is one argument).
TopLevelCommasOnly ==
    Returned =>
        /\ ~Enclosed => result = script_arg_extraction_err(config.label)
        /\ (Enclosed /\ Balanced(Interior)) => result = Ok(TopLevelPieces(Interior))

\* What the code returns instead: the whole trimmed interior when it has a
\* "(" and ends with ")", the interior cut at every comma otherwise.
EveryCommaOrNone ==
    (Returned /\ Enclosed) =>
        LET inner == trimify_chars(Interior) IN
        IF Contains(inner, "(") /\ inner[Len(inner)] = ")"
        THEN result = Ok(<<inner>>)
        ELSE /\ result.kind = "Ok"
             /\ Len(result.val) = Count(Interior, ",") + 1
             /\ \A k \in 1..Len(result.val) : ~Contains(result.val[k], ",")

\* "(a,())" came back as the one argument "a,()".
EveryCommaOrNoneWitness ==
    /\ Returned
    /\ input = <<"(","a",",","(",")",")">>
    /\ result = Ok(<< <<"a",",","(",")">> >>)

-----------------------------------------------------------------------------
(* parsers/flag_parser.rs, parsers/arg_parser.rs, structs/*_config.rs      *)

\* fn flagify(&self) -> String
flagify(key) == <<"-","-">> \o key

\* args without the elements at the positions in drop
Without(args, drop) ==
    LET keep == { i \in 1..Len(args) : i \notin drop }
        At(k) == CHOOSE i \in keep : Cardinality({ j \in keep : j <= i }) = k
    IN [k \in 1..Cardinality(keep) |-> args[At(k)]]

\* parse_boolean_flag that takes out the first flag only: a fault
\* FlagsDropped is checked against.
parse_boolean_flag_first_only(args, key) ==
    LET at == { i \in 1..Len(args) : args[i] = flagify(key) } IN
    IF at = {} THEN [found |-> FALSE, args |-> args]
    ELSE [found |-> TRUE,
          args |-> Without(args, { CHOOSE i \in at : \A j \in at : i <= j })]

\* pub fn parse_boolean_flag(args: &mut Vec<&str>, key: &str) -> bool
\* [found |-> the bool, args |-> args as the call leaves them]
parse_boolean_flag(args, key) ==
    LET retained == SelectSeq(args, LAMBDA arg : arg # flagify(key)) IN
    [found |-> Len(args) # Len(retained), args |-> retained]

\* pub fn missing_follow_up_val_err(key: &str) -> String
missing_follow_up_val_err(flag) ==
    ErrFmt("Missing follow-up value after flag '{key}'!", flag, <<>>)

\* pub fn multiple_value_flags_detected_err(key: &str) -> String
multiple_value_flags_detected_err(flag) ==
    ErrFmt("Multiple flags '{key}' found. You can only specify flag with a value once!",
           flag, <<>>)

\* pub fn parse_value_flag(args: &mut Vec<&str>, key: &str)
\*     -> Result<Option<String>, ParsingError>
\* [res |-> Ok / Err, some |-> the Option is Some, value |-> its String,
\*  args |-> args as the call leaves them]
parse_value_flag(args, key) ==
    LET flag    == flagify(key)
        windows == { i \in 1..(Len(args) - 1) : args[i] = flag }
    IN IF Len(args) > 0 /\ args[Len(args)] = flag
       THEN [res |-> missing_follow_up_val_err(flag), some |-> FALSE,
             value |-> <<>>, args |-> args]
       ELSE IF windows = {}
       THEN [res |-> Ok(<<>>), some |-> FALSE, value |-> <<>>, args |-> args]
       ELSE LET flag_index == CHOOSE i \in windows : \A j \in windows : i <= j IN
            IF \E j \in (flag_index + 2)..Len(args) : args[j] = flag
            THEN [res |-> multiple_value_flags_detected_err(flag), some |-> FALSE,
                  value |-> <<>>, args |-> args]
            ELSE [res |-> Ok(<<>>), some |-> TRUE, value |-> args[flag_index + 1],
                  args |-> Without(args, {flag_index, flag_index + 1})]

\* str::to_lowercase on the letters of the model's arguments
to_lowercase(str) ==
    LET upper == <<"A","B","C","D","E","F","G","H","I","J","K","L","M",
                   "N","O","P","Q","R","S","T","U","V","W","X","Y","Z">>
        lower == <<"a","b","c","d","e","f","g","h","i","j","k","l","m",
                   "n","o","p","q","r","s","t","u","v","w","x","y","z">>
    IN [i \in 1..Len(str) |->
          IF \E k \in 1..26 : upper[k] = str[i]
          THEN lower[CHOOSE k \in 1..26 : upper[k] = str[i]]
          ELSE str[i]]

\* impl Parsable for DeriveKeyConfig: fn parse(args: &mut Vec<&str>)
\* [res |-> Ok / Err, config |-> the DeriveKeyConfig, args |-> args as left]
DeriveKeyConfig_parse(args) ==
    LET f == parse_value_flag(args, <<"p","a","t","h">>) IN
    IF f.res.kind # "Ok" THEN [res |-> f.res, config |-> <<>>, args |-> f.args]
    ELSE IF ~f.some
    THEN [res |-> Ok(<<>>), config |-> [path |-> <<>>], args |-> f.args]
    ELSE LET raw_path == IF Len(f.value) > 0 /\ f.value[1] = "/"
                         THEN <<"m">> \o f.value
                         ELSE <<"m","/">> \o f.value
             lowered  == to_lowercase(raw_path)
         IN IF DerivationPath_from_str(lowered)
            THEN [res |-> Ok(<<>>),
                  config |-> [path |-> Tail(Split(lowered, "/"))],
                  args |-> f.args]
            ELSE [res |-> Err("{err}"), config |-> <<>>, args |-> f.args]

\* impl Parsable for ScriptExpressionConfig: fn parse(args: &mut Vec<&str>)
ScriptExpressionConfig_parse(args) ==
    LET c == parse_boolean_flag(args, <<"c","o","m","p","u","t","e","-","c","h","e","c","k","s","u","m">>)
        v == parse_boolean_flag(c.args, <<"v","e","r","i","f","y","-","c","h","e","c","k","s","u","m">>)
    IN IF c.found /\ v.found
       THEN [res |-> Err("use only '--verify-checksum' or '--compute-checksum', not both"),
             config |-> <<>>, args |-> v.args]
       ELSE [res |-> Ok(<<>>),
             config |-> [compute_checksum |-> c.found, verify_checksum |-> v.found],
             args |-> v.args]

\* impl Parsable for KeyExpressionConfig: the arguments are left as they are.
KeyExpressionConfig_parse(args) ==
    [res |-> Ok(<<>>), config |-> <<>>, args |-> args]

MISSING_INPUT_ERR_MSG ==
    "No input argument provided. You must provide at least one input argument or include '-' to read from standard input."

MISSING_ARG_ERR_MSG == "No argument provided. Please specify the sub-command."

\* fn get_inputs(args: &Vec<&str>) -> Result<Inputs, ParsingError>
\* [res |-> Ok(<<from>>) / Err, inputs |-> the arguments returned]: from is
\* "stdin" when the inputs are the lines of the standard input.
get_inputs(args) ==
    IF \E i \in 1..Len(args) : args[i] = <<"-">>
    THEN [res |-> Ok(<<"stdin">>), inputs |-> <<>>]
    ELSE IF Len(args) <= 1
    THEN [res |-> Err(MISSING_INPUT_ERR_MSG), inputs |-> <<>>]
    ELSE [res |-> Ok(<<"args">>), inputs |-> Tail(args)]

CMD_DERIVE_KEY == <<"d","e","r","i","v","e","-","k","e","y">>
CMD_KEY_EXPRESSION == <<"k","e","y","-","e","x","p","r","e","s","s","i","o","n">>
CMD_SCRIPT_EXPRESSION ==
    <<"s","c","r","i","p","t","-","e","x","p","r","e","s","s","i","o","n">>
FLAG_HELP == <<"-","-","h","e","l","p">>

\* pub fn parse_args(mut args: Vec<&str>) -> Result<(Command, Inputs), ParsingError>
\* [res, command, config, inputs]
parse_args(args) ==
    IF \E i \in 1..Len(args) : args[i] = FLAG_HELP
    THEN [res |-> Ok(<<"empty">>), command |-> "help", config |-> <<>>, inputs |-> <<>>]
    ELSE IF Len(args) = 0
    THEN [res |-> Err(MISSING_ARG_ERR_MSG), command |-> "none", config |-> <<>>,
          inputs |-> <<>>]
    ELSE IF args[1] \notin {CMD_DERIVE_KEY, CMD_KEY_EXPRESSION, CMD_SCRIPT_EXPRESSION}
    THEN [res |-> ErrFmt("Invalid argument: {}", "", args[1]), command |-> "none",
          config |-> <<>>, inputs |-> <<>>]
    ELSE LET c == IF args[1] = CMD_DERIVE_KEY THEN DeriveKeyConfig_parse(args)
                  ELSE IF args[1] = CMD_KEY_EXPRESSION THEN KeyExpressionConfig_parse(args)
                  ELSE ScriptExpressionConfig_parse(args)
             name == IF args[1] = CMD_DERIVE_KEY THEN "derive-key"
                     ELSE IF args[1] = CMD_KEY_EXPRESSION THEN "key-expression"
                     ELSE "script-expression"
         IN IF c.res.kind # "Ok"
            THEN [res |-> c.res, command |-> "none", config |-> <<>>, inputs |-> <<>>]
            ELSE LET g == get_inputs(c.args) IN
                 IF g.res.kind # "Ok"
                 THEN [res |-> g.res, command |-> "none", config |-> <<>>,
                       inputs |-> <<>>]
                 ELSE [res |-> g.res, command |-> name, config |-> c.config,
                       inputs |-> g.inputs]

-----------------------------------------------------------------------------
(* parse_args called on its own (SpecParse)                                *)

MaxArgs == 4        \* most arguments of a command line

\* The sub-commands, the flags, the "-" of the standard input, derivation
\* paths, valid and not, and two plain arguments
ArgWords ==
    { CMD_DERIVE_KEY, CMD_KEY_EXPRESSION, CMD_SCRIPT_EXPRESSION, FLAG_HELP,
      flagify(<<"p","a","t","h">>),
      flagify(<<"c","o","m","p","u","t","e","-","c","h","e","c","k","s","u","m">>),
      flagify(<<"v","e","r","i","f","y","-","c","h","e","c","k","s","u","m">>),
      <<"-">>, <<"1","0","0","/","2","0","0","h">>, <<"/","1","H">>,
      <<"a","r","g","u","m","e","n","t">>, <<"1">> }

ArgLines == UNION { [1..n -> ArgWords] : n \in 0..MaxArgs }

\* One call of parse_args(input): input is the Vec of the arguments.
InitParse ==
    /\ input \in ArgLines
    /\ command = "none"
    /\ config = <<>>
    /\ inputs = <<>>
    /\ result = NoResult
    /\ pc = "call"
    /\ origin = "parse_args"
    /\ position = 0
    /\ stdout = <<>>
    /\ stderr = <<>>
    /\ status = "none"
    /\ code = 0
    /\ stack = <<>>
    /\ s = <<>>
    /\ created = <<>>
    /\ checked = FALSE
    /\ epc = "idle"

\* The call returns the command with its configuration and the inputs.
ParseArgsCall ==
    /\ pc = "call"
    /\ LET r == parse_args(input) IN
       /\ result' = r.res
       /\ command' = r.command
       /\ config' = r.config
       /\ inputs' = r.inputs
    /\ pc' = "returned"
    /\ UNCHANGED <<input, origin, s, created, checked, epc>>
    /\ UNCHANGED <<position, stdout, stderr, status, code, stack>>

NextParse == ParseArgsCall

SpecParse == InitParse /\ [][NextParse]_vars

-----------------------------------------------------------------------------
(* Properties of parse_args (SpecParse)                                    *)

PATH_FLAG == flagify(<<"p","a","t","h">>)

\* The words the configuration parser of the sub-command takes as flags
FlagsOf(cmd) ==
    IF cmd = "derive-key" THEN { PATH_FLAG }
    ELSE IF cmd = "script-expression"
    THEN { flagify(<<"c","o","m","p","u","t","e","-","c","h","e","c","k","s","u","m">>),
           flagify(<<"v","e","r","i","f","y","-","c","h","e","c","k","s","u","m">>) }
    ELSE {}

\* The positions of input taken by the flags of the sub-command and by the
\* value that follows --path
ConsumedPositions ==
    { i \in 2..Len(input) :
        \/ input[i] \in FlagsOf(command)
        \/ command = "derive-key" /\ input[i - 1] = PATH_FLAG }

\* A sub-command was returned together with arguments as its inputs.
ParsedFromArgs ==
    /\ Returned
    /\ result.kind = "Ok"
    /\ command \in {"derive-key", "key-expression", "script-expression"}
    /\ \A i \in 1..Len(input) : input[i] # <<"-">>

-----------------------------------------------------------------------------
(* subcommands/derive_key.rs: the arms of an extended key                  *)

\* bip32 XPrv::derive_child / XPub::derive_child on the attributes of a
\* key: the child is one deeper, its parent fingerprint is the fingerprint
\* fp of the key it is derived from, its child number is the one asked for.
\* A public key has no hardened child.  No key of the model is as deep as
\* the one byte of the depth allows.
\* [res |-> Ok / Err, key |-> the child]
derive_child(key, child_number, fp) ==
    IF key.prefix = "xpub" /\ child_number.hardened
    THEN [res |-> Err("{e}"), key |-> key]
    ELSE [res |-> Ok(<<>>),
          key |-> [key EXCEPT !.depth = key.depth + 1,
                              !.parent_fingerprint = fp,
                              !.index = child_number.index,
                              !.path = Append(key.path, child_number)]]

\* for child_number in config.path.iter() { key = key.derive_child(child_number)? }
RECURSIVE DeriveAlong(_, _, _, _)
DeriveAlong(key, path, k, fp) ==
    IF k > Len(path) THEN [res |-> Ok(<<>>), key |-> key]
    ELSE LET d == derive_child(key, path[k], fp) IN
         IF d.res.kind # "Ok" THEN d
         ELSE DeriveAlong(d.key, path, k + 1, fp)

\* XPrv::from_str / XPub::from_str: the key with its attributes, no child
\* derived from it yet.
ParsedKey(input_key, prefix) ==
    [key |-> input_key, prefix |-> prefix,
     depth |-> ExtendedKeyEntry(input_key).depth,
     parent_fingerprint |-> ExtendedKeyEntry(input_key).parent_fingerprint,
     index |-> ExtendedKeyEntry(input_key).index,
     path |-> <<>>]

\* The arms of derive_key that validate the key given, before any child is
\* derived from it: the fault ZeroDepthDerived is checked against.
DeriveKeyExtended_validated_first(input_key, prefix, cfg, fp) ==
    IF ~ExtendedKeyParses(input_key, prefix) THEN Err("{e}")
    ELSE IF validate_extended_key_attrs(ParsedKey(input_key, prefix)).kind # "Ok"
    THEN validate_extended_key_attrs(ParsedKey(input_key, prefix))
    ELSE LET d == DeriveAlong(ParsedKey(input_key, prefix), cfg.path, 1, fp)
         IN IF d.res.kind # "Ok" THEN d.res ELSE Ok(d.key)

\* derive_key(input, config), the arms priv_key @ ['x','p','r','v', ..] and
\* pub_key @ ['x','p','u','b', ..]: the key is parsed, the children of
\* config.path are derived one after the other, and the attributes of the
\* last one are validated (those of the public key of an xprv are the same).
\* The Ok holds the derived key in the place of its two strings.
DeriveKeyExtended(input_key, prefix, cfg, fp) ==
    IF ~ExtendedKeyParses(input_key, prefix) THEN Err("{e}")
    ELSE LET d == DeriveAlong(ParsedKey(input_key, prefix), cfg.path, 1, fp)
         IN IF d.res.kind # "Ok" THEN d.res
            ELSE IF validate_extended_key_attrs(d.key).kind # "Ok"
            THEN validate_extended_key_attrs(d.key)
            ELSE Ok(d.key)

\* pub fn derive_key(input: &str, config: &DeriveKeyConfig) -> Result<String, ParsingError>
\* fp is the fingerprint of the parent of the last child derived.  The arm
\* of a seed is modelled for the empty path.
derive_key(inp, cfg, fp) ==
    IF StartsWith(inp, <<"x","p","r","v">>) THEN DeriveKeyExtended(inp, "xprv", cfg, fp)
    ELSE IF StartsWith(inp, <<"x","p","u","b">>) THEN DeriveKeyExtended(inp, "xpub", cfg, fp)
    ELSE DeriveKeySeed(inp)

-----------------------------------------------------------------------------
(* derive_key called on its own (SpecDerive)                               *)

\* Child numbers of the configured paths
Child(i, h) == [index |-> i, hardened |-> h]

\* The empty path, one child, hardened or not, and two children
DerivePaths ==
    { <<>>, <<Child(0, FALSE)>>, <<Child(0, TRUE)>>, <<Child(7, FALSE)>>,
      <<Child(1, FALSE), Child(2, TRUE)>>, <<Child(44, TRUE), Child(0, FALSE)>>,
      <<Child(2147483647, FALSE), Child(0, FALSE)>> }

\* Fingerprints a parent key may have
Fingerprints == { <<0, 0, 0, 0>>, <<120, 65, 46, 58>> }

\* The keys the engine decodes, strings with the prefix of a key that are
\* none, and the seed of the tests
DeriveInputs ==
    { e.key : e \in ExtendedKeyTable }
    \cup { <<"x","p","r","v","1","2","3">>, <<"x","p","u","b">>,
           <<"x","p","u","b">> \o SubSeq(KEY_XPRV_A, 5, Len(KEY_XPRV_A)) }

\* One call of derive_key(input, config)
InitDerive ==
    /\ NoCli
    /\ \/ input \in DeriveInputs /\ config \in [path : DerivePaths]
       \/ input = SEED /\ config = [path |-> <<>>]
    /\ result = NoResult
    /\ pc = "call"
    /\ origin = "derive_key"
    /\ s = <<>>
    /\ created = <<>>
    /\ checked = FALSE
    /\ epc = "idle"

DeriveKeyCall ==
    /\ pc = "call"
    /\ \E fp \in Fingerprints : result' = derive_key(input, config, fp)
    /\ pc' = "returned"
    /\ UNCHANGED <<input, config, origin, s, created, checked, epc>>
    /\ UNCHANGED cli

NextDerive == DeriveKeyCall

SpecDerive == InitDerive /\ [][NextDerive]_vars

-----------------------------------------------------------------------------
(* Properties of derive_key (SpecDerive)                                   *)

\* The input is an extended key of depth zero whose parent fingerprint or
\* child index is not zero.
ZeroDepthFaulty ==
    /\ InExtendedKeyTable(input)
    /\ ExtendedKeyEntry(input).depth = 0
    /\ \/ ExtendedKeyEntry(input).parent_fingerprint # <<0, 0, 0, 0>>
       \/ ExtendedKeyEntry(input).index # 0

\* C28: derive_key returns an error for every extended key of depth zero
\* whose parent fingerprint or child index is not zero, whatever the
\* configured path.
ZeroDepthRefused ==
    (Returned /\ ZeroDepthFaulty) => result.kind = "Err"

\* What the code does: such a key is refused with the error of its
\* attributes when the path is empty; with a path, the attributes validated
\* are those of the last child, which is not of depth zero, so the call
\* fails only when a child cannot be derived (a hardened child of an xpub).
ZeroDepthDerived ==
    (Returned /\ ZeroDepthFaulty) =>
        IF config.path = <<>>
        THEN result = validate_extended_key_attrs(ExtendedKeyEntry(input))
        ELSE IF StartsWith(input, <<"x","p","u","b">>)
                /\ \E k \in 1..Len(config.path) : config.path[k].hardened
        THEN result = Err("{e}")
        ELSE /\ result.kind = "Ok"
             /\ result.val.depth = Len(config.path)
             /\ result.val.key = input

\* The xpub of depth zero with a parent fingerprint came back as a key of
\* depth one for the path of one child that is not hardened.
ZeroDepthDerivedWitness ==
    /\ Returned
    /\ input = KEY_XPUB_ZERO_DEPTH_PARENT
    /\ config.path = <<Child(0, FALSE)>>
    /\ result.kind = "Ok"
    /\ result.val.depth = 1

====
